---- MODULE Spec2Model ----
(***************************************************************************)
(* Session manager of the UNii client (src/unii/unii.py, UNiiLocal, and    *)
(* src/unii/unii_connection.py, UNiiTCPConnection).                        *)
(*                                                                         *)
(* The program runs on one asyncio event loop: a coroutine runs without    *)
(* interruption from one suspension point to the next.  Every action below *)
(* is one such run of one task: the application task ("app"), the          *)
(* keep-alive task ("poll") or the receive task.  The suspension points    *)
(* are open_connection (pc "opening"), the sleep of _get_received_message  *)
(* (pc "waiting"), the sleep of the keep-alive loop (pc "sleep"), the      *)
(* await of a cancelled keep-alive task (pc "cancelling") and the read of  *)
(* the receive loop.  StreamWriter.drain and wait_closed are taken not to  *)
(* suspend, so a write and a close are steps of the run that makes them.   *)
(*                                                                         *)
(* The sequential code is written as operators from a state record to a    *)
(* state record; an action applies the operators of one run to the         *)
(* current state.  In Spec and SpecReconnect time is abstract: the 5 s     *)
(* deadline of a wait is the flag "expired" of the waiting task, the 30 s  *)
(* keep-alive interval is a choice of the keep-alive step.  SpecKeepAlive  *)
(* counts the seconds: last_message_sent is the age of the last write and  *)
(* a waiting task has "left" seconds to its deadline.                      *)
(***************************************************************************)
EXTENDS Integers, Sequences, FiniteSets, TLC

\* ------------------------------------------------------------------ bounds
\* random.randint(0, 65535) draws the first sequence number: seeds 0..MaxSeed
MaxSeed == 0
\* operations the application calls in one behaviour
MaxOps == 2
\* faults of the environment in one behaviour: a deadline that passes, a
\* write or a read that fails, an empty payload where the handler reads a
\* record
MaxFaults == 1
\* EVENT_OCCURRED messages the peer sends in one behaviour
MaxEvents == 1
\* connections the peer accepts in one behaviour
MaxOpens == 1
\* no new operation is started once the sequence counter has reached MaxSeq
MaxSeq == 10
\* highest block number an arrangement loop requests
MaxBlocks == 2

\* payload bytes of a request, bytes of a text a checksum is taken of
MaxData == 13
MaxText == 2
\* inputs of the control panel
MaxInputs == 2

\* the messages sent and the frames received in the frame by frame session
MaxSent == 2

MaxFrames == 2

\* the sections of the control panel
MaxSections == 2

\* operations the application calls on a connection the peer has closed
MaxCalls == 3

\* the equipment information messages received
MaxSnapshots == 4

\* the messages written in the session of the write path
MaxWrites == 3
\* characters of a code made of any characters, characters of a code made of
\* one digit
MaxCode == 3
MaxDigits == 18

\* _POLL_ALIVE_INTERVAL, in seconds
POLL_ALIVE_INTERVAL == 30
\* the deadline of _get_received_message, in seconds
Timeout == 5
\* _CRC16_INIT, _CRC16_POLYNOMIAL (0x1021)
CRC16_INIT == 0
CRC16_POLYNOMIAL == 4129
\* UNiiPacketType, UNiiProtocolID
SESSION_SETUP == 1
NORMAL_CONECTION == 2
NO_ENCRYPTION == 4
BASIC_ENCRYPTION == 5

\* ------------------------------------------------------------ vocabulary
\* UNiiSectionArmedState
NOT_PROGRAMMED == 0
ARMED == 1

None == "None"
NoSeq == -1

Tasks == {"app", "poll"}

\* no pure function called yet, nothing returned
NoCall == [fn |-> "none"]

NoRet == [of |-> "none"]

\* self.inputs = {}
NoInputs == [n \in {} |-> None]

\* no message decoded yet
NoMessage == [present |-> FALSE, session_id |-> -1, tx_sequence |-> -1, conn |-> 0]

Other(t) == IF t = "app" THEN "poll" ELSE "app"

\* the responses the handshake and the operations wait for (UNiiCommand)
HsSteps == <<"CR", "EI", "SA", "SS", "IA", "IS", "OA", "DS">>

Request(step) ==
    CASE step = "CR" -> "CONNECTION_REQUEST"
      [] step = "EI" -> "REQUEST_EQUIPMENT_INFORMATION"
      [] step = "SA" -> "REQUEST_SECTION_ARRANGEMENT"
      [] step = "SS" -> "REQUEST_SECTION_STATUS"
      [] step = "IA" -> "REQUEST_INPUT_ARRANGEMENT"
      [] step = "IS" -> "REQUEST_INPUT_STATUS"
      [] step = "OA" -> "REQUEST_OUTPUT_ARRANGEMENT"
      [] step = "DS" -> "REQUEST_DEVICE_STATUS"
      [] step = "arm" -> "REQUEST_ARM_SECTION"
      [] step = "disarm" -> "REQUEST_DISARM_SECTION"
      [] step = "poll" -> "POLL_ALIVE_REQUEST"

Expected(step) ==
    CASE step = "CR" -> "CONNECTION_REQUEST_RESPONSE"
      [] step = "EI" -> "RESPONSE_REQUEST_EQUIPMENT_INFORMATION"
      [] step = "SA" -> "RESPONSE_REQUEST_SECTION_ARRANGEMENT"
      [] step = "SS" -> "RESPONSE_REQUEST_SECTION_STATUS"
      [] step = "IA" -> "RESPONSE_REQUEST_INPUT_ARRANGEMENT"
      [] step = "IS" -> "INPUT_STATUS_CHANGED"
      [] step = "OA" -> "RESPONSE_REQUEST_OUTPUT_ARRANGEMENT"
      [] step = "DS" -> "DEVICE_STATUS_CHANGED"
      [] step = "arm" -> "RESPONSE_ARM_SECTION"
      [] step = "disarm" -> "RESPONSE_DISARM_SECTION"
      [] step = "poll" -> "POLL_ALIVE_RESPONSE"

\* commands the peer sends
InCommands ==
    { Expected(HsSteps[i]) : i \in 1..Len(HsSteps) }
      \cup {"RESPONSE_ARM_SECTION", "RESPONSE_DISARM_SECTION",
            "POLL_ALIVE_RESPONSE", "EVENT_OCCURRED"}

\* commands the peer sends without a request
Pushes == {"EVENT_OCCURRED", "INPUT_STATUS_CHANGED", "DEVICE_STATUS_CHANGED"}

\* UNiiArmState / UNiiDisarmState result codes
ArmStates == {"NO_CHANGE", "SECTION_ARMED", "ARMING_FAILED_SECTION_NOT_READY"}
DisarmStates == {"NO_CHANGE", "SECTION_DISARMED", "DISARMING_FAILED_NOT_AUTHORIZED"}

\* the decoded payload of an inbound message: None when the payload is empty
DataOf(cmd) ==
    CASE cmd = "CONNECTION_REQUEST_RESPONSE" -> {None}
      [] cmd = "POLL_ALIVE_RESPONSE" -> {None}
      [] cmd = "RESPONSE_REQUEST_EQUIPMENT_INFORMATION" -> {None, "fw_2_16", "fw_2_17"}
      [] cmd = "RESPONSE_ARM_SECTION" -> {None} \cup ArmStates
      [] cmd = "RESPONSE_DISARM_SECTION" -> {None} \cup DisarmStates
      [] cmd = "EVENT_OCCURRED" -> {"record"}
      [] cmd = "DEVICE_STATUS_CHANGED" -> {"record"}
      [] OTHER -> {None, "record"}

\* the version byte of an arrangement response
ArrangementVersion(cmd) ==
    IF cmd = "RESPONSE_REQUEST_INPUT_ARRANGEMENT" THEN 2 ELSE 1

\* the data bytes the peer may answer the request of block with: none, the
\* block number 0xFFFF, and, before the last block, the block asked for
ArrangementData(cmd, block) ==
    {<< >>, <<0, ArrangementVersion(cmd), 255, 255>>}
        \cup IF block < MaxBlocks
             THEN {<<0, ArrangementVersion(cmd), block \div 256, block % 256>>}
             ELSE {}

\* UNiiInputArrangement.__init__ and UNiiOutputArrangement.__init__ before
\* they read the entries: the message of the ValueError, or "none"
ArrangementError(cmd, data) ==
    IF data[2] # ArrangementVersion(cmd) THEN "Invalid message version"
    ELSE IF 256 * data[3] + data[4] = 65535 THEN "Invalid block number"
    ELSE "none"

\* UNiiResponseMessage.__init__ from the data bytes of an arrangement
\* response: the data attribute, or the message is invalid
ArrangementDecoded(cmd, data) ==
    IF Len(data) = 0
    THEN [failed |-> FALSE, data |-> None]
    ELSE IF ArrangementError(cmd, data) = "none"
    THEN [failed |-> FALSE, data |-> "record"]
    ELSE IF ArrangementError(cmd, data) = "Invalid block number"
    THEN [failed |-> FALSE, data |-> None]
    ELSE [failed |-> TRUE, data |-> None]

\* handlers that read their argument: an empty payload makes them raise
ReadsData == {"RESPONSE_REQUEST_SECTION_ARRANGEMENT",
              "RESPONSE_REQUEST_SECTION_STATUS",
              "INPUT_STATUS_CHANGED"}

VARIABLES
    shared_key,               \* UNiiTCPConnection._shared_key is not None
    writer,                   \* UNiiTCPConnection._writer is not None (is_open)
    receive_task,             \* "none" | "running" | "dead" (ended by an exception)
    tx_sequence,              \* UNiiTCPConnection._tx_sequence
    connected,                \* UNii.connected
    poll_alive_task,          \* "none" | "running" | "dead" (ended by an exception)
    equipment_information,    \* None | "fw_2_16" | "fw_2_17"
    waiting_for_message,      \* UNiiLocal._waiting_for_message
    received_message_queue,   \* UNiiLocal._received_message_queue
    task,                     \* where each task is suspended, and its locals
    wire,                     \* the messages written on the current connection
    trace,                    \* the steps of the running disconnect() call
    ops,                      \* operations the application has called so far
    faults,                   \* faults of the environment so far
    events,                   \* EVENT_OCCURRED messages received so far
    opens,                    \* connections established so far
    limit,                    \* the budgets of the behaviour: ops, faults, events, opens
    last_message_sent,        \* seconds since UNiiTCPConnection.last_message_sent
    called,                   \* the function or handler called last, with its arguments
    returned,                 \* the value it returned
    inputs,                   \* UNii.inputs, followed in SpecInputs only
    session_id,               \* UNiiTCPConnection._session_id        (these four are
    rx_sequence,              \* UNiiTCPConnection._rx_sequence        followed in
    forwarded,                \* the commands forwarded to subscribers SpecConnection
    decoded,                  \* the message the receive loop decoded last   only)
    writer_lock,              \* the task that holds UNiiTCPConnection._writer_lock
                              \* (followed in SpecWriter only)
    sections,                 \* UNii.sections   (these two are followed in
    outputs,                  \* UNii.outputs     SpecCallback only)
    at_eof                    \* StreamReader.at_eof(): the peer has closed the
                              \* stream (followed in SpecEndOfStream only)

vars == <<shared_key, writer, receive_task, tx_sequence, connected, poll_alive_task,
          equipment_information, waiting_for_message, received_message_queue,
          task, wire, trace, ops, faults, events, opens, limit, last_message_sent,
          called, returned, inputs, session_id, rx_sequence, forwarded, decoded, writer_lock, sections, outputs, at_eof>>

\* _session_id = None and _rx_sequence = 0 of the class, no subscriber
\* called, no message decoded, the writer lock free, and self.sections = {}
\* and self.outputs = {} (unii.py 88-90)
NoConnection ==
    /\ session_id = -1
    /\ rx_sequence = 0
    /\ forwarded = << >>
    /\ decoded = NoMessage
    /\ writer_lock = "free"
    /\ sections = NoInputs
    /\ outputs = NoInputs
    /\ at_eof = FALSE

\* the state as one record, for the operators that model sequential code
St ==
    [shared_key |-> shared_key, writer |-> writer, receive_task |-> receive_task,
     tx_sequence |-> tx_sequence, connected |-> connected,
     poll_alive_task |-> poll_alive_task,
     equipment_information |-> equipment_information,
     waiting_for_message |-> waiting_for_message,
     received_message_queue |-> received_message_queue,
     task |-> task, wire |-> wire, trace |-> trace, ops |-> ops,
     faults |-> faults, events |-> events,
     opens |-> opens, limit |-> limit, last_message_sent |-> last_message_sent]

Becomes(s) ==
    /\ shared_key' = s.shared_key
    /\ writer' = s.writer
    /\ receive_task' = s.receive_task
    /\ tx_sequence' = s.tx_sequence
    /\ connected' = s.connected
    /\ poll_alive_task' = s.poll_alive_task
    /\ equipment_information' = s.equipment_information
    /\ waiting_for_message' = s.waiting_for_message
    /\ received_message_queue' = s.received_message_queue
    /\ task' = s.task
    /\ wire' = s.wire
    /\ trace' = s.trace
    /\ ops' = s.ops
    /\ faults' = s.faults
    /\ events' = s.events
    /\ opens' = s.opens
    /\ limit' = s.limit
    /\ last_message_sent' = s.last_message_sent
    /\ UNCHANGED <<called, returned, inputs, session_id, rx_sequence, forwarded, decoded, writer_lock, sections, outputs, at_eof>>

\* what the last _send_receive of a task returned: the message (rx, command,
\* data, and the connection conn it arrived on) and the call that took it (its
\* sequence number seq, its expected response, the connection call of its
\* request); command None for "no response", raised the exception of the call
NoReply ==
    [seq |-> NoSeq, expected |-> None, call |-> 0,
     rx |-> NoSeq, command |-> None, data |-> None, conn |-> 0, raised |-> "none"]

\* a task that is not running.  pc, op, hs, seq, expected, expired, after,
\* block and exc are the position and the locals of the coroutine (exc the
\* exception in flight, hs the handshake request in progress, after: the
\* deadline of the wait is later than that of the other task, late: the
\* sleep of the keep-alive loop began when a wait was about to end); the
\* other fields record
\* what has happened to the operation: conn the connection its pending
\* request was written on, got its last reply, missed a handshake request
\* without a response, sentcr and crr the CONNECTION_REQUEST written and
\* answered, opened a connection established for it, openAtCall the socket
\* open when it was called.
Idle ==
    [pc |-> "idle", op |-> "none", hs |-> "none", seq |-> NoSeq, expected |-> None,
     expired |-> FALSE, after |-> FALSE, late |-> FALSE, left |-> 0, conn |-> 0,
     block |-> 0,
     exc |-> "none", result |-> "none",
     got |-> NoReply, missed |-> FALSE, sentcr |-> FALSE,
     crr |-> FALSE, opened |-> FALSE, openAtCall |-> FALSE]

\* the messages written on the current connection: their number, the last
\* sequence number and the one before it, the last command, the numbers used
NoWire == [n |-> 0, tx |-> NoSeq, prev |-> NoSeq, command |-> None, seqs |-> {}]

\* ------------------------------------------------- connection (TCP) layer
\* the value and the exception of a call, with the state it leaves
R(s, ret, exc) == [s |-> s, ret |-> ret, exc |-> exc]

\* the steps of a disconnect() call, recorded for the task that runs it
Log(s, t, ev) ==
    IF t \in Tasks /\ s.task[t].op = "disconnect"
    THEN [s EXCEPT !.trace = Append(@, ev)]
    ELSE s

\* UNiiTCPConnection.close: _cancel_receive, then _close.  A receive task that
\* ended by an exception is done but still referenced: _cancel_receive
\* reports a failure and the socket is left as it is.
Close(s, t) ==
    IF s.receive_task = "dead"
    THEN R(s, FALSE, "none")
    ELSE R(Log([s EXCEPT !.receive_task = "none", !.writer = FALSE], t, "close"),
           TRUE, "none")

\* a variant of NextSeq that reuses the sequence number
SameSeq(n) == n

\* self._tx_sequence += 1 (299)
NextSeq(n) == n + 1

\* UNiiTCPConnection.send: the next sequence number, the write (ok: the write
\* and drain succeed; otherwise ConnectionResetError, close and
\* UNiiConnectionError).  Returns the sequence number, NoSeq for None.
ConnSend(s, t, cmd, ok) ==
    IF ~s.writer
    THEN R(s, NoSeq, "none")
    ELSE IF ok
    THEN R(Log([s EXCEPT !.tx_sequence = NextSeq(@),
                         !.last_message_sent = 0,
                         !.wire = [n |-> @.n + 1, tx |-> NextSeq(s.tx_sequence),
                                   prev |-> s.tx_sequence, command |-> cmd,
                                   seqs |-> @.seqs \cup {NextSeq(s.tx_sequence)}]],
               t, cmd),
           NextSeq(s.tx_sequence), "none")
    ELSE R(Close([s EXCEPT !.tx_sequence = NextSeq(@), !.faults = @ + 1], t).s,
           NoSeq, "conn")

\* UNiiLocal._disconnect after connection.close returned (310-319)
Closed(c, t) ==
    IF c.ret
    THEN R(Log([c.s EXCEPT !.connected = FALSE], t, "notify"), TRUE, "none")
    ELSE R(c.s, FALSE, "none")

\* UNiiLocal._disconnect after its _send returned (306-310)
Closing(r, t) ==
    IF r.exc # "none" THEN R(r.s, FALSE, r.exc) ELSE Closed(Close(r.s, t), t)

\* UNiiLocal._disconnect: NORMAL_DISCONNECT, close, flag, notification
LocalDisconnect(s, t, ok) == Closing(ConnSend(s, t, "NORMAL_DISCONNECT", ok), t)

\* a public operation of the application returns (or raises) result
Return(s, t, result) ==
    [s EXCEPT !.task[t].pc = "returned", !.task[t].result = result,
              !.task[t].hs = "none", !.task[t].seq = NoSeq,
              !.task[t].expected = None, !.task[t].expired = FALSE,
              !.task[t].after = FALSE,
              !.task[t].conn = 0, !.task[t].block = 0, !.task[t].exc = "none"]

\* ------------------------------------------------------ request / response
\* UNiiLocal._get_received_message, 474-475: the deadline, five seconds from
\* now and so after the deadline of a wait that has begun, and the
\* registration
Register(s, t, seq, expected) ==
    [s EXCEPT !.waiting_for_message =
                  [q \in DOMAIN @ \cup {seq} |-> IF q = seq THEN expected ELSE @[q]],
              !.task[t].pc = "waiting", !.task[t].seq = seq,
              !.task[t].expected = expected, !.task[t].expired = FALSE,
              !.task[t].after = TRUE, !.task[Other(t)].after = FALSE,
              !.task[t].left = Timeout, !.task[t].conn = s.opens]

\* a _send_receive of task t ends with reply, or raises exc
Got(s, t, reply, exc) ==
    [s EXCEPT !.task[t].pc = "running", !.task[t].got = [reply EXCEPT !.raised = exc],
              !.task[t].exc = exc, !.task[t].left = 0,
              !.task[t].missed = @ \/ (s.task[t].hs # "none" /\ exc = "none"
                                          /\ reply.command = None),
              !.task[t].crr = @ \/ (s.task[t].hs = "CR" /\ reply.command # None)]

\* the entry of the received-message table a call takes, as its reply
Taken(s, t, e) ==
    [seq |-> s.task[t].seq, expected |-> s.task[t].expected, call |-> s.task[t].conn,
     rx |-> e.rx, command |-> e.command, data |-> e.data, conn |-> e.conn,
     raised |-> "none"]

\* return self._received_message_queue.pop(tx_sequence)
Pop(s, t) ==
    Got([s EXCEPT !.received_message_queue = [q \in DOMAIN @ \ {s.task[t].seq} |-> @[q]]],
        t, Taken(s, t, s.received_message_queue[s.task[t].seq]), "none")

\* the call of task t, with no message
Nothing(s, t) ==
    [NoReply EXCEPT !.seq = s.task[t].seq, !.expected = s.task[t].expected,
                    !.call = s.task[t].conn]

\* the loop of _get_received_message ends without a message: the
\* registration is deleted (KeyError when another call deleted it)
GiveUp(s, t) ==
    IF s.task[t].seq \in DOMAIN s.waiting_for_message
    THEN Got([s EXCEPT !.waiting_for_message = [q \in DOMAIN @ \ {s.task[t].seq} |-> @[q]]],
             t, Nothing(s, t), "none")
    ELSE Got(s, t, Nothing(s, t), "KeyError")

\* the first pass of the loop of _get_received_message (476-481)
Look(s, t) ==
    IF s.writer /\ s.task[t].seq \in DOMAIN s.received_message_queue
    THEN Pop(s, t)
    ELSE s

\* UNiiLocal._send_receive from the result r of its _send: [None, None] or the
\* exception without a wait, else the registration and the first look
Sent(r, t, step) ==
    IF r.exc # "none" \/ r.ret = NoSeq
    THEN Got(r.s, t, NoReply, r.exc)
    ELSE Look(Register([r.s EXCEPT !.task[t].sentcr = @ \/ step = "CR"],
                       t, r.ret, Expected(step)),
              t)

\* a variant of ArmResult that takes only SECTION_ARMED for a success
ArmedOnly(response, data) ==
    IF response = "RESPONSE_ARM_SECTION"
    THEN IF data = None
         THEN "AttributeError"
         ELSE IF data = "SECTION_ARMED" THEN "true" ELSE "false"
    ELSE "AttributeError"

\* UNiiLocal.arm_section, after its _send_receive.  The type of data follows
\* the command of the message: only a RESPONSE_ARM_SECTION payload has an
\* arm_state, and None has no attribute at all.
ArmResult(response, data) ==
    IF response = "RESPONSE_ARM_SECTION"
    THEN IF data = None
         THEN "AttributeError"        \* data.arm_state in the condition
         ELSE IF data \in {"SECTION_ARMED", "NO_CHANGE"} THEN "true" ELSE "false"
    ELSE "AttributeError"             \* logger.error(..., data.arm_state)

\* UNiiLocal.disarm_section, after its _send_receive
DisarmResult(response, data) ==
    IF response = "RESPONSE_DISARM_SECTION"
    THEN IF data = None
         THEN "AttributeError"        \* data.disarm_state in the condition
         ELSE IF data \in {"SECTION_DISARMED", "NO_CHANGE"} THEN "true" ELSE "false"
    ELSE IF data # None
    THEN "AttributeError"             \* logger.error(..., data.disarm_state)
    ELSE "false"

\* ---------------------------------------------------------- keep-alive loop
\* the keep-alive task ends: by break (the reference is cleared) or by an
\* exception no handler of the coroutine catches (the reference stays)
PollEnds(s, how, exc) ==
    [s EXCEPT !.poll_alive_task = how,
              !.task["poll"] = [Idle EXCEPT !.result = exc, !.got = s.task["poll"].got]]

\* a wait of the application that ends at its next look, 0.1 s away at most:
\* the socket is closed or the deadline has passed (476)
Ending(s) ==
    s.task["app"].pc = "waiting" /\ (~s.writer \/ s.task["app"].expired)

\* await asyncio.sleep(1) of the keep-alive loop
Asleep(s) ==
    [s EXCEPT !.task["poll"] = [Idle EXCEPT !.pc = "sleep", !.op = "poll",
                                            !.late = Ending(s),
                                            !.got = s.task["poll"].got]]

\* the _disconnect of the keep-alive loop has returned (537-543)
PollClosed(r) ==
    IF r.exc # "none" THEN PollEnds(r.s, "dead", r.exc) ELSE Asleep(r.s)

\* UNiiLocal._poll_alive and the rest of the iteration of
\* _poll_alive_coroutine, after the _send_receive of the poll
PollAfter(s, ok) ==
    IF s.task["poll"].exc \notin {"none", "conn"}
    THEN PollEnds(s, IF s.task["poll"].exc = "enc" THEN "none" ELSE "dead",
                  IF s.task["poll"].exc = "enc" THEN "none" ELSE s.task["poll"].exc)
    ELSE IF \/ s.task["poll"].exc = "none"
               /\ s.task["poll"].got.command = "POLL_ALIVE_RESPONSE"
            \/ ~s.writer
    THEN Asleep(s)
    ELSE PollClosed(LocalDisconnect(s, "poll", ok))

\* the code that follows the _send_receive of arm_section, disarm_section
\* and _poll_alive
OuterAfter(s, t, ok) ==
    IF s.task[t].pc = "waiting"
    THEN s
    ELSE IF s.task[t].op = "poll"
    THEN PollAfter(s, ok)
    ELSE Return(s, t, IF s.task[t].exc # "none"
                      THEN s.task[t].exc
                      ELSE IF s.task[t].op = "arm"
                      THEN ArmResult(s.task[t].got.command, s.task[t].got.data)
                      ELSE DisarmResult(s.task[t].got.command, s.task[t].got.data))

\* UNiiLocal._send (351-354) and _send_receive of the operation's own request,
\* the socket being open or the reconnect done (exc: the reconnect raised)
OuterGo(s, t, exc, ok) ==
    OuterAfter(Sent(IF exc # "none"
                    THEN R([s EXCEPT !.task[t].hs = "none"], NoSeq, exc)
                    ELSE ConnSend([s EXCEPT !.task[t].hs = "none"], t,
                                  Request(s.task[t].op), ok),
                    t, s.task[t].op),
               t, ok)

\* the keep-alive task of a connect() that succeeded (294-297)
Started(s) ==
    [s EXCEPT !.poll_alive_task = "running",
              !.task["poll"] = [Idle EXCEPT !.pc = "sleep", !.op = "poll"]]

\* UNiiLocal._connect has returned ret or raised exc: connect() (291-302), or
\* the rest of _send (336-354) when the handshake was a reconnect
ConnectEnds(s, t, ret, exc, ok) ==
    IF s.task[t].op = "connect"
    THEN Return(IF ret /\ exc = "none" THEN Started(s) ELSE s, t,
                IF exc = "conn"
                THEN "false"
                ELSE IF exc # "none"
                THEN exc
                ELSE IF ret THEN "true" ELSE "false")
    ELSE OuterGo(s, t, exc, ok)

\* ------------------------------------------------------------- disconnect
\* UNiiLocal.disconnect, 324-334, the keep-alive task cancelled
\* except UNiiConnectionError: return False (328-330)
Caught(r) ==
    R(r.s, r.ret /\ r.exc = "none", IF r.exc = "conn" THEN "none" ELSE r.exc)

DisconnectCore(s, t, ok) ==
    IF s.writer THEN Caught(LocalDisconnect(s, t, ok)) ELSE R(s, TRUE, "none")

\* a variant of Raised that raises nothing after disconnect()
RaisedNothing(exc) == exc

\* raise UNiiEncryptionError() (204), unless disconnect() raised exc (203)
Raised(exc) == IF exc # "none" THEN exc ELSE "enc"

\* disconnect() has returned r.ret or raised r.exc: the public operation
\* returns, or _connect raises the encryption error (202-204)
AfterDisconnect(r, t, ok) ==
    IF r.s.task[t].op = "disconnect"
    THEN Return(r.s, t, IF r.exc # "none"
                        THEN r.exc
                        ELSE IF r.ret THEN "true" ELSE "false")
    ELSE ConnectEnds(r.s, t, FALSE, Raised(r.exc), ok)

\* task.cancel() on the keep-alive task (510).  A task that sleeps or waits
\* for a response ends at the CancelledError.  One suspended in
\* open_connection turns it into UNiiConnectionError (connection.connect,
\* 161-167), which _poll_alive catches: the task goes on.
Cancel(s) ==
    IF s.task["poll"].pc = "opening"
    THEN [s EXCEPT !.task["poll"].pc = "aborting"]
    ELSE PollEnds(s, "none", "none")

\* UNiiLocal.disconnect: _cancel_poll_alive first; the caller is suspended in
\* "await self._poll_alive_task".  A task cancelling itself only clears the
\* reference.
Disconnect(s, t, ok) ==
    IF s.poll_alive_task = "running" /\ t # "poll"
    THEN [Cancel(s) EXCEPT !.task[t].pc = "cancelling"]
    ELSE AfterDisconnect(
             DisconnectCore(Log(IF s.poll_alive_task = "running"
                                THEN [s EXCEPT !.poll_alive_task = "none"]
                                ELSE s,
                                t, "cancel"),
                            t, ok),
             t, ok)

\* --------------------------------------------------------------- handshake
\* what UNiiLocal._connect does next: another request, disconnect() and the
\* encryption error, _disconnect() and False, or its end
Go(step, block) ==
    [do |-> "go", step |-> step, block |-> block, ret |-> FALSE, exc |-> "none"]

End(do, ret, exc) ==
    [do |-> do, step |-> "none", block |-> 0, ret |-> ret, exc |-> exc]

\* a variant of More that ends the loop after every response
MoreNever(data) == FALSE

\* an arrangement loop goes on after a response with data ("if data is
\* None: break")
More(data) == data # None

\* a variant of Plan that asks for the inputs right after the connection
\* request and for the sections after them
PlanInputsFirst(s, t) ==
    IF s.task[t].exc # "none"
    THEN End("end", FALSE, s.task[t].exc)
    ELSE CASE s.task[t].hs = "CR" -> Go("IA", 1)
           [] s.task[t].hs = "IA" -> Go("SA", 0)
           [] OTHER -> End("end", TRUE, "none")

\* UNiiLocal._connect after the _send_receive of its request hs returned
Plan(s, t) ==
    IF s.task[t].exc # "none"
    THEN End("end", FALSE, s.task[t].exc)
    ELSE CASE s.task[t].hs = "CR" ->
                IF s.task[t].got.command = None /\ s.shared_key
                THEN End("disconnect", FALSE, "enc")
                ELSE IF s.task[t].got.command = "CONNECTION_REQUEST_RESPONSE"
                THEN Go("EI", 0)
                ELSE End("end", FALSE, "none")
           [] s.task[t].hs = "EI" ->
                IF \/ s.task[t].got.command = None
                   \/ s.task[t].got.data = None
                   \/ s.task[t].got.command # "RESPONSE_REQUEST_EQUIPMENT_INFORMATION"
                   \/ s.equipment_information = None
                THEN End("local", FALSE, "none")
                ELSE Go("SA", 0)
           [] s.task[t].hs = "SA" -> Go("SS", 0)
           [] s.task[t].hs = "SS" -> Go("IA", 1)
           [] s.task[t].hs = "IA" ->
                IF ~More(s.task[t].got.data)
                THEN Go("IS", s.task[t].block)
                ELSE Go("IA", s.task[t].block + 1)
           [] s.task[t].hs = "IS" ->
                IF s.equipment_information = None
                THEN End("end", FALSE, "AttributeError")
                ELSE IF s.equipment_information = "fw_2_17"
                THEN Go("OA", 1)
                ELSE Go("DS", s.task[t].block)
           [] s.task[t].hs = "OA" ->
                IF ~More(s.task[t].got.data)
                THEN Go("DS", s.task[t].block)
                ELSE Go("OA", s.task[t].block + 1)
           [] s.task[t].hs = "DS" -> End("end", TRUE, "none")

\* UNiiLocal._connect returns ret, or raises the exception of r
HsEnd(r, t, ret, ok) == ConnectEnds(r.s, t, ret, r.exc, ok)

RECURSIVE HsGo(_, _, _, _)

\* UNiiLocal._connect carries out p
HsDo(s, t, p, ok) ==
    CASE p.do = "go" -> HsGo([s EXCEPT !.task[t].block = p.block], t, p.step, ok)
      [] p.do = "disconnect" -> Disconnect(s, t, ok)
      [] OTHER ->
            HsEnd(IF p.do = "local"
                  THEN LocalDisconnect(s, t, ok)
                  ELSE R(IF p.ret THEN [s EXCEPT !.connected = TRUE] ELSE s, p.ret, p.exc),
                  t, p.ret, ok)

\* UNiiLocal._connect after a _send_receive, unless the call is waiting
HsAfter(s, t, ok) ==
    IF s.task[t].pc = "waiting" THEN s ELSE HsDo(s, t, Plan(s, t), ok)

\* one _send_receive of UNiiLocal._connect, sent without reconnect
HsGo(s, t, step, ok) ==
    HsAfter(Sent(ConnSend([s EXCEPT !.task[t].hs = step], t, Request(step), ok), t, step),
            t, ok)

\* the code that follows a _send_receive that has returned or raised, in the
\* task that made it
Resume(s, t, ok) ==
    IF s.task[t].hs = "none" THEN OuterAfter(s, t, ok) ELSE HsAfter(s, t, ok)

\* ------------------------------------------------------------ receive loop
\* the payloads the peer may send as the reply to the request of task u: an
\* arrangement ends at block MaxBlocks
Payloads(s, u) ==
    IF s.task[u].hs \in {"IA", "OA"}
    THEN {ArrangementDecoded(s.task[u].expected, d).data :
            d \in {x \in ArrangementData(s.task[u].expected, s.task[u].block) :
                      ~ArrangementDecoded(s.task[u].expected, x).failed}}
    ELSE DataOf(s.task[u].expected)

\* every decoded payload
Data == {None, "record", "fw_2_16", "fw_2_17"} \cup ArmStates \cup DisarmStates

\* the calls of this connection that wait for a response, with the payloads
\* the peer may answer them
Asked(s) ==
    { e \in Tasks \X Data : /\ s.task[e[1]].pc = "waiting"
                            /\ s.task[e[1]].conn = s.opens
                            /\ e[2] \in Payloads(s, e[1]) }

\* the inbound messages the peer may send now: the reply to a request a call
\* of this connection waits for, with the sequence number of the request, or
\* a message of its own, with the last sequence number written
InMessages(s) ==
    { [rx |-> s.task[e[1]].seq, command |-> s.task[e[1]].expected, data |-> e[2]] :
         e \in Asked(s) }
      \cup { [rx |-> s.tx_sequence, command |-> c[1], data |-> c[2]] :
                c \in { x \in Pushes \X Data : x[2] \in DataOf(x[1]) } }

\* a variant of Deliver that does not compare the command of the message
\* with the expected response
DeliverAny(s, m) ==
    IF m.rx \in DOMAIN s.waiting_for_message
    THEN [s EXCEPT !.received_message_queue =
                       [q \in DOMAIN @ \cup {m.rx} |->
                           IF q = m.rx
                           THEN [command |-> m.command, data |-> m.data, rx |-> m.rx,
                                 conn |-> s.opens]
                           ELSE @[q]]]
    ELSE s

\* UNiiLocal._message_received_callback, 463-467: the message goes to the
\* received-message table under its rx_sequence when a call waits for it
Deliver(s, m) ==
    IF /\ m.rx \in DOMAIN s.waiting_for_message
       /\ s.waiting_for_message[m.rx] \in {None, m.command}
    THEN [s EXCEPT !.received_message_queue =
                       [q \in DOMAIN @ \cup {m.rx} |->
                           IF q = m.rx
                           THEN [command |-> m.command, data |-> m.data, rx |-> m.rx,
                                 conn |-> s.opens]
                           ELSE @[q]]]
    ELSE s

\* the callback after the acknowledgement of an event (443-447)
Acked(r, m) == IF r.exc # "none" THEN r.s ELSE Deliver(r.s, m)

\* the handlers of the callback that keep state (448-461)
Handled(s, m) ==
    IF m.command = "RESPONSE_REQUEST_EQUIPMENT_INFORMATION"
    THEN [s EXCEPT !.equipment_information = m.data]
    ELSE s

\* UNiiLocal._message_received_callback as run by _receive_coroutine (269-272).
\* An exception of a handler or of the acknowledgement leaves the coroutine,
\* which catches none of them: the task ends before the message is delivered.
Callback(s, m, ok) ==
    IF m.command = "EVENT_OCCURRED" /\ s.connected
    THEN Acked(ConnSend(s, "recv", "RESPONSE_EVENT_OCCURRED", ok), m)
    ELSE IF m.command \in ReadsData /\ m.data = None
    THEN [s EXCEPT !.receive_task = "dead"]
    ELSE Deliver(Handled(s, m), m)

\* a message whose payload is empty where its handler or its caller reads a
\* record
Malformed(m) ==
    /\ m.data = None
    /\ m.command \in ReadsData \cup {"RESPONSE_REQUEST_EQUIPMENT_INFORMATION",
                                      "RESPONSE_ARM_SECTION", "RESPONSE_DISARM_SECTION"}

\* the budgets of the behaviour, charged for the message m
Counted(s, m) ==
    [s EXCEPT !.faults = IF Malformed(m) THEN @ + 1 ELSE @,
              !.events = IF m.command = "EVENT_OCCURRED" THEN @ + 1 ELSE @]

\* ----------------------------------------------------------------- actions
Init ==
    /\ shared_key \in BOOLEAN
    /\ writer = FALSE
    /\ receive_task = "none"
    /\ tx_sequence = -1
    /\ connected = FALSE
    /\ poll_alive_task = "none"
    /\ equipment_information = None
    /\ waiting_for_message = [q \in {} |-> None]
    /\ received_message_queue = [q \in {} |-> None]
    /\ task = [t \in Tasks |-> Idle]
    /\ wire = NoWire
    /\ trace = << >>
    /\ ops = 0
    /\ faults = 0
    /\ events = 0
    /\ opens = 0
    /\ limit = [ops |-> MaxOps, faults |-> MaxFaults, events |-> MaxEvents,
                opens |-> MaxOpens]
    /\ last_message_sent = 0
    /\ called = NoCall
    /\ returned = NoRet
    /\ inputs = NoInputs
    /\ NoConnection

\* whether the writes of a run succeed: a failure is a fault
Oks == IF faults < limit.faults THEN BOOLEAN ELSE {TRUE}

\* a run that may write is started only below the cap of the counter
Room == writer => tx_sequence < MaxSeq

\* the application calls op
Called(op) ==
    [St EXCEPT !.ops = @ + 1, !.trace = << >>,
               !.task["app"] = [Idle EXCEPT !.op = op, !.opened = writer,
                                            !.openAtCall = writer]]

\* the task t suspends in open_connection (146-148)
Opening(s, t) == [s EXCEPT !.task[t].pc = "opening"]

\* the application calls connect(), no keep-alive loop running
StartConnect ==
    /\ task["app"].pc = "idle"
    /\ poll_alive_task # "running"
    /\ ops < limit.ops
    /\ Room
    /\ \E ok \in Oks :
         Becomes(IF writer
                 THEN HsGo(Called("connect"), "app", "CR", ok)
                 ELSE Opening(Called("connect"), "app"))

\* the application calls disconnect()
StartDisconnect ==
    /\ task["app"].pc = "idle"
    /\ ops < limit.ops
    /\ Room
    /\ \E ok \in Oks : Becomes(Disconnect(Called("disconnect"), "app", ok))

\* the application calls arm_section() or disarm_section()
StartArmDisarm ==
    /\ task["app"].pc = "idle"
    /\ ops < limit.ops
    /\ Room
    /\ \E op \in {"arm", "disarm"}, ok \in Oks :
         Becomes(IF writer
                 THEN OuterGo(Called(op), "app", "none", ok)
                 ELSE Opening(Called(op), "app"))

\* the application takes the result of the operation
Complete ==
    /\ task["app"].pc = "returned"
    /\ task' = [task EXCEPT !["app"] = Idle]
    /\ UNCHANGED <<shared_key, writer, receive_task, tx_sequence, connected,
                   poll_alive_task, equipment_information, waiting_for_message,
                   received_message_queue, wire, trace, ops, faults, events, opens, limit,
                   last_message_sent, called, returned, inputs,
                   session_id, rx_sequence, forwarded, decoded, writer_lock, sections, outputs, at_eof>>

\* the keep-alive loop wakes with the socket closed or the interval elapsed;
\* a wait that was about to end when the sleep began has ended
PollWake ==
    /\ poll_alive_task = "running"
    /\ task["poll"].pc = "sleep"
    /\ task["poll"].late => ~Ending(St)
    /\ Room
    /\ \E ok \in Oks :
         Becomes(IF writer THEN OuterGo(St, "poll", "none", ok) ELSE Opening(St, "poll"))

\* UNiiTCPConnection.connect, 149-158: the socket, the seed of the sequence
\* numbers, the receive task
Connected(s, t, seed) ==
    [s EXCEPT !.writer = TRUE, !.tx_sequence = seed, !.receive_task = "running",
              !.wire = NoWire, !.opens = @ + 1, !.task[t].opened = TRUE]

\* open_connection succeeds (UNiiTCPConnection.connect, 146-158)
Opened(t) ==
    /\ task[t].pc = "opening"
    /\ opens < limit.opens
    /\ \E seed \in 0..MaxSeed, ok \in Oks :
         Becomes(HsGo(Connected(St, t, seed), t, "CR", ok))

\* open_connection fails, times out or is cancelled (UNiiTCPConnection.connect,
\* 159-167)
OpenFailed(t) ==
    /\ task[t].pc \in {"opening", "aborting"}
    /\ \E ok \in Oks : Becomes(ConnectEnds(St, t, FALSE, "conn", ok))

\* the 5 s deadline of a wait passes, the earlier deadline first
Expire(t) ==
    /\ task[t].pc = "waiting"
    /\ writer
    /\ ~task[t].expired
    /\ task[t].after => (task[Other(t)].pc # "waiting" \/ task[Other(t)].expired)
    /\ faults < limit.faults
    /\ task' = [task EXCEPT ![t].expired = TRUE]
    /\ faults' = faults + 1
    /\ UNCHANGED <<shared_key, writer, receive_task, tx_sequence, connected,
                   poll_alive_task, equipment_information, waiting_for_message,
                   received_message_queue, wire, trace, ops, events, opens, limit,
                   last_message_sent, called, returned, inputs,
                   session_id, rx_sequence, forwarded, decoded, writer_lock, sections, outputs, at_eof>>

\* a waiting call wakes and finds its message (476-479)
ReturnMatch(t) ==
    /\ task[t].pc = "waiting"
    /\ writer
    /\ ~task[t].expired
    /\ task[t].seq \in DOMAIN received_message_queue
    /\ \E ok \in Oks : Becomes(Resume(Pop(St, t), t, ok))

\* a waiting call wakes with the deadline passed or the socket closed (483-485)
ReturnTimeout(t) ==
    /\ task[t].pc = "waiting"
    /\ ~writer \/ task[t].expired
    /\ \E ok \in Oks : Becomes(Resume(GiveUp(St, t), t, ok))

\* the keep-alive task a disconnect() waits for has ended (512-522): by the
\* cancellation or a break, or by an exception, which the await raises
AwaitCancelled(t) ==
    /\ task[t].pc = "cancelling"
    /\ poll_alive_task # "running"
    /\ \E ok \in Oks :
         Becomes(AfterDisconnect(IF poll_alive_task = "dead"
                                 THEN R(St, FALSE, task["poll"].result)
                                 ELSE DisconnectCore(Log(St, t, "cancel"), t, ok),
                                 t, ok))

\* the receive loop reads and decodes one message and runs the callback
Receive ==
    /\ receive_task = "running"
    /\ writer
    /\ \E m \in InMessages(St), ok \in Oks :
         /\ m.command = "EVENT_OCCURRED" => events < limit.events
         /\ Malformed(m) => faults < limit.faults
         /\ Becomes(Callback(Counted(St, m), m, ok))

\* a variant of ReadReset that ends the keep-alive loop as well
ReadResetStops ==
    /\ receive_task = "running"
    /\ writer
    /\ faults < limit.faults
    /\ writer' = FALSE
    /\ receive_task' = "none"
    /\ poll_alive_task' = "none"
    /\ faults' = faults + 1
    /\ UNCHANGED <<shared_key, tx_sequence, connected,
                   equipment_information, waiting_for_message,
                   received_message_queue, task, wire, trace, ops, events, opens,
                   limit, last_message_sent, called, returned, inputs,
                   session_id, rx_sequence, forwarded, decoded, writer_lock, sections, outputs, at_eof>>

\* the read of the receive loop raises ConnectionResetError (275-278)
ReadReset ==
    /\ receive_task = "running"
    /\ writer
    /\ faults < limit.faults
    /\ writer' = FALSE
    /\ receive_task' = "none"
    /\ faults' = faults + 1
    /\ UNCHANGED <<shared_key, tx_sequence, connected, poll_alive_task,
                   equipment_information, waiting_for_message,
                   received_message_queue, task, wire, trace, ops, events, opens,
                   limit, last_message_sent, called, returned, inputs,
                   session_id, rx_sequence, forwarded, decoded, writer_lock, sections, outputs, at_eof>>

Next ==
    \/ StartConnect
    \/ StartDisconnect
    \/ StartArmDisarm
    \/ Complete
    \/ PollWake
    \/ \E t \in Tasks : Opened(t)
    \/ \E t \in Tasks : OpenFailed(t)
    \/ \E t \in Tasks : Expire(t)
    \/ \E t \in Tasks : ReturnMatch(t)
    \/ \E t \in Tasks : ReturnTimeout(t)
    \/ \E t \in Tasks : AwaitCancelled(t)
    \/ Receive
    \/ ReadReset

Spec == Init /\ [][Next]_vars

\* ------------------------------------------------ a session that reconnects
\* the requests of a handshake without a key, firmware below 2.17 and one
\* block of inputs
LiveSteps == <<"CR", "EI", "SA", "SS", "IA", "IS", "DS">>

\* the state after connect() has returned true on the first connection, every
\* request of the handshake answered (a state of Spec): the registrations of
\* the handshake are still in the waiting table, the keep-alive loop sleeps.
\* budget is what the behaviour that goes on may spend.
LiveSession(budget) ==
    /\ shared_key = FALSE
    /\ writer = TRUE
    /\ receive_task = "running"
    /\ tx_sequence = Len(LiveSteps)
    /\ connected = TRUE
    /\ poll_alive_task = "running"
    /\ equipment_information = "fw_2_16"
    /\ waiting_for_message = [q \in 1..Len(LiveSteps) |-> Expected(LiveSteps[q])]
    /\ received_message_queue = [q \in {} |-> None]
    /\ task = [t \in Tasks |-> IF t = "poll"
                                THEN [Idle EXCEPT !.pc = "sleep", !.op = "poll"]
                                ELSE Idle]
    /\ wire = [n |-> Len(LiveSteps), tx |-> Len(LiveSteps), prev |-> Len(LiveSteps) - 1,
               command |-> "REQUEST_DEVICE_STATUS", seqs |-> 1..Len(LiveSteps)]
    /\ trace = << >>
    /\ ops = 1
    /\ faults = 0
    /\ events = 0
    /\ opens = 1
    /\ limit = budget
    /\ last_message_sent = 0
    /\ called = NoCall
    /\ returned = NoRet
    /\ inputs = NoInputs
    /\ NoConnection

\* the session goes on with one operation, two faults and one more connection
InitLive ==
    LiveSession([ops |-> 2, faults |-> 2, events |-> 0, opens |-> 2])

\* the payload of the reply to the request of task u, as in the handshake
\* of the first connection
LivePayload(s, u) ==
    CASE s.task[u].expected = "RESPONSE_REQUEST_EQUIPMENT_INFORMATION" -> "fw_2_16"
      [] s.task[u].expected = "RESPONSE_ARM_SECTION" -> "SECTION_ARMED"
      [] s.task[u].expected = "RESPONSE_DISARM_SECTION" -> "SECTION_DISARMED"
      [] s.task[u].expected \in ReadsData \cup {"DEVICE_STATUS_CHANGED"} -> "record"
      [] OTHER -> None

\* the receive loop reads the reply to a pending request
ReceiveReply ==
    /\ receive_task = "running"
    /\ writer
    /\ \E u \in Tasks :
         /\ <<u, LivePayload(St, u)>> \in Asked(St)
         /\ Becomes(Callback(St, [rx |-> task[u].seq, command |-> task[u].expected,
                                  data |-> LivePayload(St, u)],
                              TRUE))

\* the steps of the session: arm_section or disarm_section, the keep-alive
\* loop, the reconnect, the waits and the receive loop
NextLive ==
    \/ StartArmDisarm
    \/ Complete
    \/ PollWake
    \/ \E t \in Tasks : Opened(t)
    \/ \E t \in Tasks : OpenFailed(t)
    \/ \E t \in Tasks : ReturnMatch(t)
    \/ \E t \in Tasks : ReturnTimeout(t)
    \/ ReceiveReply
    \/ ReadReset

SpecReconnect == InitLive /\ [][NextLive]_vars

\* the session goes on with one operation and one fault, the peer accepting
\* two more connections
InitRace ==
    LiveSession([ops |-> 2, faults |-> 1, events |-> 0, opens |-> 3])

SpecRace == InitRace /\ [][NextLive]_vars

\* ------------------------------------------------- the keep-alive loop, timed
\* a wait past its deadline: its next look is a tenth of a second away
Due(s) == \E t \in Tasks : s.task[t].pc = "waiting" /\ s.task[t].expired

\* a waiting task one second later (time.time() < timeout, 476)
Later(w) ==
    IF w.pc = "waiting" /\ w.left > 0
    THEN [w EXCEPT !.left = @ - 1, !.expired = (w.left = 1)]
    ELSE w

\* one second passes: the age of the last write, counted up to the first
\* value above the interval, and the deadlines of the waits
Passing(s) ==
    [s EXCEPT !.last_message_sent = IF @ > POLL_ALIVE_INTERVAL THEN @ ELSE @ + 1,
              !.task = [t \in Tasks |-> Later(s.task[t])]]

\* a variant of Woken that polls at every wake
WokenAlways(s, ok) ==
    IF ~s.writer THEN Opening(s, "poll") ELSE OuterGo(s, "poll", "none", ok)

\* one iteration of _poll_alive_coroutine, from the test of 531-535: the poll
\* when the socket is closed or the last write is more than the interval
\* ago, then the sleep
Woken(s, ok) ==
    IF ~s.writer
    THEN Opening(s, "poll")
    ELSE IF s.last_message_sent > POLL_ALIVE_INTERVAL
    THEN OuterGo(s, "poll", "none", ok)
    ELSE Asleep(s)

\* the keep-alive loop wakes from asyncio.sleep(1), one second later
PollTick ==
    /\ poll_alive_task = "running"
    /\ task["poll"].pc = "sleep"
    /\ task["poll"].late => ~Ending(St)
    /\ ~Due(St)
    /\ Room
    /\ \E ok \in Oks : Becomes(Woken(Passing(St), ok))

\* one second passes while the keep-alive loop is not asleep
Second ==
    /\ poll_alive_task = "running" => task["poll"].pc # "sleep"
    /\ ~Due(St)
    /\ Becomes(Passing(St))

\* a session with one operation of the application and one failing write or
\* read, the peer accepting no further connection
InitKeepAlive ==
    LiveSession([ops |-> 2, faults |-> 1, events |-> 0, opens |-> 1])

NextKeepAlive ==
    \/ StartArmDisarm
    \/ Complete
    \/ PollTick
    \/ Second
    \/ \E t \in Tasks : OpenFailed(t)
    \/ \E t \in Tasks : ReturnMatch(t)
    \/ \E t \in Tasks : ReturnTimeout(t)
    \/ ReceiveReply
    \/ ReadReset

SpecKeepAlive == InitKeepAlive /\ [][NextKeepAlive]_vars

\* ------------------------------------------------------------ frame codec
\* (src/unii/unii_message.py).  A byte is a number of 0..255, a byte string a
\* sequence of bytes; a pure function is called on inputs that call holds
\* and its value is ret.

\* an attribute that is None, where the attribute is a number
NoValue == -1
\* key is None
NoKey == 0
\* data is None, and data that is a raw byte string (UNiiRawData)
NoData == [present |-> FALSE, raw |-> << >>]

Raw(b) == [present |-> TRUE, raw |-> b]

\* int.to_bytes(n): n bytes, most significant first
IntToBytes(x, n) ==
    [i \in 1..n |-> (x \div (256 ^ (n - i))) % 256]

\* int.from_bytes(b): most significant first
RECURSIVE IntFromBytes(_)
IntFromBytes(b) ==
    IF b = << >> THEN 0 ELSE 256 * IntFromBytes(SubSeq(b, 1, Len(b) - 1)) + b[Len(b)]

\* a ^ b of two non-negative integers
RECURSIVE Xor(_, _)
Xor(a, b) ==
    IF a = 0 THEN b
    ELSE IF b = 0 THEN a
    ELSE ((a + b) % 2) + 2 * Xor(a \div 2, b \div 2)

\* b[from:to] of Python, positions counted from 0 and clipped to the string
Slice(b, from, to) ==
    SubSeq(b, from + 1, IF to < Len(b) THEN to ELSE Len(b))

\* a variant of CrcShift that leaves the polynomial out
RECURSIVE ShiftOnly(_, _)
ShiftOnly(crc, k) ==
    IF k = 0 THEN crc ELSE ShiftOnly((crc * 2) % 65536, k - 1)

\* the inner loop of _calculate_crc16, k shifts still to do.  The code masks
\* with 0xFFFF once, at the end; the bits above the 16th never come back
\* down (a shift moves them up, the polynomial is below 2^16, the test reads
\* bit 15), so they are dropped here at every shift.
RECURSIVE CrcShift(_, _)
CrcShift(crc, k) ==
    IF k = 0
    THEN crc
    ELSE IF (crc \div 32768) % 2 = 1
    THEN CrcShift(Xor((crc * 2) % 65536, CRC16_POLYNOMIAL), k - 1)
    ELSE CrcShift((crc * 2) % 65536, k - 1)

\* the outer loop of _calculate_crc16 from byte i on (crc is below 2^16
\* here; the test makes the evaluation proceed byte by byte)
RECURSIVE CrcFrom(_, _, _)
CrcFrom(message, i, crc) ==
    IF crc >= 65536 \/ i > Len(message)
    THEN crc % 65536
    ELSE CrcFrom(message, i + 1, CrcShift(Xor(crc, message[i] * 256), 8))

\* _UNiiMessage._calculate_crc16
calculate_crc16(message) == CrcFrom(message, 1, CRC16_INIT)

\* UNiiRequestMessage._create_header: session id, sequence numbers, protocol
\* id, packet type and two bytes for the length
create_header(m, protocol_id) ==
    IntToBytes(m.session_id, 2) \o IntToBytes(m.tx_sequence, 4)
        \o IntToBytes(m.rx_sequence, 4) \o IntToBytes(protocol_id, 1)
        \o IntToBytes(IF m.command < 8 THEN SESSION_SETUP ELSE NORMAL_CONECTION, 1)
        \o <<0, 0>>

\* UNiiRequestMessage._create_payload: command, data length, data
create_payload(m) ==
    IntToBytes(m.command, 2)
        \o IntToBytes(IF ~m.data.present THEN 0 ELSE Len(m.data.raw), 2)
        \o (IF ~m.data.present THEN << >> ELSE m.data.raw)

\* a variant of Padding that leaves the two bytes of the checksum out
PaddingShort(packet_length) == [i \in 1..(16 - ((packet_length - 2) % 16)) |-> 0]

\* n_padding_bytes = 16 - (packet_length % 16)
Padding(packet_length) == [i \in 1..(16 - (packet_length % 16)) |-> 0]

\* the AES-CTR keystream (Crypto.Cipher.AES, not part of the repository): a
\* byte for every key, initial value and position
RECURSIVE Weigh(_)
Weigh(iv) ==
    IF iv = << >> THEN 0 ELSE (Weigh(SubSeq(iv, 1, Len(iv) - 1)) * 3 + iv[Len(iv)]) % 251

KeyStream(key, initial_value, i) ==
    (key * 89 + Weigh(initial_value) * 7 + i * 13 + 1) % 256

\* a variant of AesCtr that adds the keystream
AesAdd(key, initial_value, payload) ==
    [i \in 1..Len(payload) |-> (payload[i] + KeyStream(key, initial_value, i)) % 256]

\* aes.encrypt and aes.decrypt in counter mode: the keystream xor-ed on
AesCtr(key, initial_value, payload) ==
    [i \in 1..Len(payload) |-> Xor(payload[i], KeyStream(key, initial_value, i))]

\* header[:12] + b"\00\00\00\00"
InitialValue(header) == Slice(header, 0, 12) \o <<0, 0, 0, 0>>

\* to_bytes, 273-279: the length written into the header, the checksum
Sealed(message) ==
    [message EXCEPT ![13] = IntToBytes(Len(message) + 2, 2)[1],
                    ![14] = IntToBytes(Len(message) + 2, 2)[2]]

Checked(message) == message \o IntToBytes(calculate_crc16(message), 2)

\* to_bytes, 242-271, from the header and the payload
Packed(header, payload, key) ==
    Checked(Sealed(header \o (IF key = NoKey
                              THEN payload \o Padding(Len(header) + Len(payload) + 2)
                              ELSE AesCtr(key, InitialValue(header),
                                          payload \o Padding(Len(header) + Len(payload) + 2)))))

\* UNiiRequestMessage.to_bytes
to_bytes(m, key) ==
    Packed(create_header(m, IF key = NoKey THEN NO_ENCRYPTION ELSE BASIC_ENCRYPTION),
           create_payload(m), key)

\* the members of UNiiCommand a request is made of here: CONNECTION_REQUEST,
\* POLL_ALIVE_REQUEST, REQUEST_ARM_SECTION, REQUEST_INPUT_ARRANGEMENT
RequestCommands == {1, 18, 274, 320}

\* the members of UNiiCommand a response is made of here:
\* POLL_ALIVE_RESPONSE, RESPONSE_REQUEST_INPUT_ARRANGEMENT
ResponseCommands == {19, 321}

\* UNiiCommand(command) of the command of a message, None for a number that
\* is no member
CommandOf(n) == IF n \in RequestCommands \cup ResponseCommands THEN n ELSE NoValue

\* a message that was not decoded: the exception, its two values
Failed(error, expected, received) ==
    [error |-> error, expected |-> expected, received |-> received,
     session_id |-> NoValue, tx_sequence |-> NoValue, rx_sequence |-> NoValue,
     command |-> NoValue, data |-> NoData]

\* UNiiResponseMessage.__init__, 329-416, from the clear payload: a payload of
\* data_length 0 gives no data, the data of a request stays raw
Parsed(header, payload) ==
    [error |-> "none", expected |-> NoValue, received |-> NoValue,
     session_id |-> IntFromBytes(Slice(header, 0, 2)),
     tx_sequence |-> IntFromBytes(Slice(header, 2, 6)),
     rx_sequence |-> IntFromBytes(Slice(header, 6, 10)),
     command |-> CommandOf(IntFromBytes(Slice(payload, 0, 2))),
     data |-> IF IntFromBytes(Slice(payload, 2, 4)) > 0
              THEN Raw(Slice(payload, 4, 4 + IntFromBytes(Slice(payload, 2, 4))))
              ELSE NoData]

\* a variant of UNiiResponseMessage that does not look at the checksum
Unverified(message, key) ==
    IF IntFromBytes(Slice(message, 12, 14)) # Len(message)
    THEN Failed("UNiiIncompleteMessageError",
                IntFromBytes(Slice(message, 12, 14)), Len(message))
    ELSE Parsed(Slice(message, 0, 14),
                IF message[11] = BASIC_ENCRYPTION /\ key # NoKey
                THEN AesCtr(key, InitialValue(Slice(message, 0, 14)),
                            Slice(message, 14, Len(message) - 2))
                ELSE Slice(message, 14, Len(message) - 2))

\* UNiiResponseMessage.__init__: the length, the checksum, the fields
UNiiResponseMessage(message, key) ==
    IF IntFromBytes(Slice(message, 12, 14)) # Len(message)
    THEN Failed("UNiiIncompleteMessageError",
                IntFromBytes(Slice(message, 12, 14)), Len(message))
    ELSE IF IntFromBytes(Slice(message, Len(message) - 2, Len(message)))
              # calculate_crc16(Slice(message, 0, Len(message) - 2))
    THEN Failed("UNiiChecksumError",
                calculate_crc16(Slice(message, 0, Len(message) - 2)),
                IntFromBytes(Slice(message, Len(message) - 2, Len(message))))
    ELSE Parsed(Slice(message, 0, 14),
                IF message[11] = BASIC_ENCRYPTION /\ key # NoKey
                THEN AesCtr(key, InitialValue(Slice(message, 0, 14)),
                            Slice(message, 14, Len(message) - 2))
                ELSE Slice(message, 14, Len(message) - 2))

\* a message with a checksum that is not the one of its bytes, and a message
\* that lost its last byte
Damaged(message, damage) ==
    CASE damage = "crc" -> [message EXCEPT ![Len(message)] = Xor(@, 1)]
      [] damage = "cut" -> SubSeq(message, 1, Len(message) - 1)
      [] OTHER -> message

\* the inputs of the calls
SessionIds == {65535, 61705}

Sequences == {0, 146680915}

Keys == {NoKey, 1, 2}

DataBytes == {165}

Datas ==
    {NoData} \cup {Raw([i \in 1..n |-> (b + i) % 256]) : n \in 0..MaxData, b \in DataBytes}

Messages ==
    [session_id : SessionIds, tx_sequence : Sequences, rx_sequence : Sequences,
     command : RequestCommands, data : Datas]

\* the byte strings a checksum is taken of
Texts ==
    {<<1, 35, 69, 103, 137, 171, 205, 239>>, <<1, 35, 69, 103, 137>>}
        \cup {[i \in 1..n |-> b] : n \in 0..MaxText, b \in 0..255}

\* no session: the variables of the session manager as constructed, unused
NoSession ==
    /\ shared_key = FALSE
    /\ writer = FALSE
    /\ receive_task = "none"
    /\ tx_sequence = -1
    /\ connected = FALSE
    /\ poll_alive_task = "none"
    /\ equipment_information = None
    /\ waiting_for_message = [q \in {} |-> None]
    /\ received_message_queue = [q \in {} |-> None]
    /\ task = [t \in Tasks |-> Idle]
    /\ wire = NoWire
    /\ trace = << >>
    /\ ops = 0
    /\ faults = 0
    /\ events = 0
    /\ opens = 0
    /\ limit = [ops |-> 0, faults |-> 0, events |-> 0, opens |-> 0]
    /\ last_message_sent = 0

session ==
    <<shared_key, writer, receive_task, tx_sequence, connected, poll_alive_task,
      equipment_information, waiting_for_message, received_message_queue,
      task, wire, trace, ops, faults, events, opens, limit, last_message_sent>>

InitCodec ==
    /\ NoSession
    /\ inputs = NoInputs
    /\ NoConnection
    /\ called \in [fn : {"to_bytes"}, m : Messages, shared_key : Keys]
                  \cup [fn : {"calculate_crc16"}, message : Texts]
    /\ returned = NoRet

\* message.to_bytes(shared_key)
Encode ==
    /\ called.fn = "to_bytes"
    /\ returned.of = "none"
    /\ returned' = [of |-> "to_bytes", value |-> to_bytes(called.m, called.shared_key)]
    /\ UNCHANGED <<session, called, inputs, session_id, rx_sequence, forwarded, decoded, writer_lock, sections, outputs, at_eof>>

\* UNiiResponseMessage(message, shared_key) of the bytes of a request, as
\* they are, with another checksum or cut, and with the key of the request
Decode ==
    /\ called.fn = "to_bytes"
    /\ returned.of = "to_bytes"
    /\ \E damage \in {"none", "crc", "cut"} :
         /\ called' = [fn |-> "UNiiResponseMessage", sent |-> called.m,
                       damage |-> damage, message |-> Damaged(returned.value, damage),
                       shared_key |-> called.shared_key]
         /\ returned' = [of |-> "UNiiResponseMessage",
                         value |-> UNiiResponseMessage(Damaged(returned.value, damage),
                                                       called.shared_key)]
    /\ UNCHANGED <<session, inputs, session_id, rx_sequence, forwarded, decoded, writer_lock, sections, outputs, at_eof>>

\* _calculate_crc16(message)
Checksum ==
    /\ called.fn = "calculate_crc16"
    /\ returned.of = "none"
    /\ returned' = [of |-> "calculate_crc16", value |-> calculate_crc16(called.message)]
    /\ UNCHANGED <<session, called, inputs, session_id, rx_sequence, forwarded, decoded, writer_lock, sections, outputs, at_eof>>

NextCodec == Encode \/ Decode \/ Checksum

SpecCodec == InitCodec /\ [][NextCodec]_vars

\* ------------------------------------------------------ device state model
\* An object of a dict class with __getattr__ = dict.get (UNiiInput) has the
\* items of the dict and, besides, the attributes that were assigned to it:
\* o.status = v sets an attribute, o["status"] = v and update set an item;
\* o.status reads the attribute and, when there is none, the item.
Unset == "unset"

\* UNiiInputState, the members used here
InputStates == {"INPUT_OK", "ALARM", "DISABLED"}

\* the input type of UNiiInput.__init__
InputTypeOf(number) ==
    IF 1 <= number /\ number <= 512 THEN "WIRED"
    ELSE IF 701 <= number /\ number <= 732 THEN "KEYPAD"
    ELSE IF 601 <= number /\ number <= 664 THEN "WIRELESS"
    ELSE IF 801 <= number /\ number <= 845 THEN "KNX"
    ELSE IF 1001 <= number /\ number <= 1128 THEN "DOOR"
    ELSE "SPARE"

\* UNiiInput.__init__, from the fields of the record
UNiiInput(number, sensor_type, reaction, name, in_sections) ==
    [items |-> [number |-> number, input_type |-> InputTypeOf(number),
                sensor_type |-> sensor_type, reaction |-> reaction,
                name |-> name, sections |-> in_sections, status |-> "DISABLED"],
     attr_status |-> Unset]

\* UNiiInputStatusRecord.__init__ and the number (UNiiInputStatus, 640-645)
UNiiInputStatusRecord(number, status, bypassed) ==
    [status |-> status, bypassed |-> bypassed, alarm_memorized |-> FALSE,
     low_battery |-> FALSE, supervision |-> FALSE, number |-> number]

\* o.status
StatusOf(o) == IF o.attr_status # Unset THEN o.attr_status ELSE o.items.status

\* dict.update
DictUpdate(a, b) ==
    [k \in DOMAIN a \cup DOMAIN b |-> IF k \in DOMAIN b THEN b[k] ELSE a[k]]

\* self.sections, with the sections an arrangement may name
KnownSections == {1}

\* unii_input["sections"][index] = self.sections[section]
Expanded(o) ==
    [o EXCEPT !.items.sections = [i \in DOMAIN @ |-> [number |-> @[i]]]]

\* the else branch of _handle_input_arrangement for the stored input old
\* and the new entry: unii_input.status = ...status, then update(unii_input)
Merged(old, entry) ==
    [old EXCEPT !.items = DictUpdate(@, [entry EXCEPT !.attr_status = StatusOf(old)].items)]

\* UNiiLocal._handle_input_arrangement
handle_input_arrangement(table, data) ==
    IF data.none
    THEN table
    ELSE [n \in DOMAIN table \cup DOMAIN data.entries |->
            IF n \notin DOMAIN data.entries THEN table[n]
            ELSE IF n \notin DOMAIN table THEN Expanded(data.entries[n])
            ELSE Merged(table[n], Expanded(data.entries[n]))]

\* a variant of handle_input_status_update that stores the status of an
\* unknown input
handle_input_status_update_adds(table, input_status) ==
    [n \in DOMAIN table \cup {input_status.number} |->
        IF n = input_status.number
        THEN [items |-> IF n \in DOMAIN table
                        THEN DictUpdate(table[n].items, input_status)
                        ELSE input_status,
              attr_status |-> Unset]
        ELSE table[n]]

\* UNiiLocal._handle_input_status_update
handle_input_status_update(table, input_status) ==
    IF input_status.number \in DOMAIN table
    THEN [table EXCEPT ![input_status.number].items = DictUpdate(@, input_status)]
    ELSE table

\* the inputs of the handlers
InputNumbers == 1..MaxInputs

Entries ==
    {UNiiInput(n, sensor_type, 0, name, in_sections) :
        n \in InputNumbers, sensor_type \in {1}, name \in {"Hall", "Door"},
        in_sections \in {<< >>, <<1>>}}

Arrangements ==
    {[none |-> TRUE, entries |-> NoInputs]}
        \cup {[none |-> FALSE, entries |-> f] :
                f \in {g \in UNION {[S -> Entries] : S \in SUBSET InputNumbers} :
                          \A n \in DOMAIN g : g[n].items.number = n}}

\* UNiiInputStatusUpdate.__init__ of the number of an input and its status
\* byte: the state in the low four bits, one flag in each of the others
UNiiInputStatusUpdate(number, data) ==
    [status |-> IF data % 16 = 0 THEN "INPUT_OK"
                ELSE IF data % 16 = 1 THEN "ALARM"
                ELSE "DISABLED",
     bypassed |-> (data \div 16) % 2 = 1,
     alarm_memorized |-> (data \div 32) % 2 = 1,
     low_battery |-> (data \div 64) % 2 = 1,
     supervision |-> (data \div 128) % 2 = 1,
     number |-> number]

\* the status bytes with a flag set: an alarm kept in memory with a low
\* battery and a supervision fault
StatusBytes == {225}

StatusRecords ==
    {UNiiInputStatusRecord(n, status, bypassed) :
        n \in InputNumbers, status \in InputStates, bypassed \in BOOLEAN}
        \cup {UNiiInputStatusUpdate(n, data) : n \in InputNumbers, data \in StatusBytes}

InitInputs ==
    /\ NoSession
    /\ called = NoCall
    /\ returned = NoRet
    /\ inputs = NoInputs
    /\ NoConnection

\* a RESPONSE_REQUEST_INPUT_ARRANGEMENT is received (459-460)
InputArrangement ==
    \E data \in Arrangements :
        /\ inputs' = handle_input_arrangement(inputs, data)
        /\ called' = [fn |-> "_handle_input_arrangement", data |-> data]
        /\ UNCHANGED <<session, returned, session_id, rx_sequence, forwarded, decoded, writer_lock, sections, outputs, at_eof>>

\* an INPUT_STATUS_UPDATE, or one record of an INPUT_STATUS_CHANGED, is
\* received (448-451)
InputStatusUpdate ==
    \E input_status \in StatusRecords :
        /\ inputs' = handle_input_status_update(inputs, input_status)
        /\ called' = [fn |-> "_handle_input_status_update", data |-> input_status]
        /\ UNCHANGED <<session, returned, session_id, rx_sequence, forwarded, decoded, writer_lock, sections, outputs, at_eof>>

NextInputs == InputArrangement \/ InputStatusUpdate

SpecInputs == InitInputs /\ [][NextInputs]_vars

\* --------------------------------------------------------- record helpers
\* (src/unii/unii_command_data.py).  A string is a sequence of characters.

\* int.from_bytes(data) & pow(2, i): the bit i of a byte string, the last byte
\* the least significant
BitOf(data, i) ==
    IF i \div 8 >= Len(data) THEN 0
    ELSE (data[Len(data) - (i \div 8)] \div (2 ^ (i % 8))) % 2

\* range(0, 31)
BitRange == 0..30

\* bit_position_to_numeric
bit_position_to_numeric(data) ==
    SelectSeq([p \in 1..Cardinality(BitRange) |-> p],
              LAMBDA p : (p - 1) \in BitRange /\ BitOf(data, p - 1) = 1)

\* the characters bytes.fromhex reads, in the order of their values
HexDigits ==
    <<"0", "1", "2", "3", "4", "5", "6", "7", "8", "9", "a", "b", "c", "d", "e", "f">>

HexValue(c) == (CHOOSE d \in 1..16 : HexDigits[d] = c) - 1

\* str.isdigit
IsDigit(data) ==
    /\ Len(data) > 0
    /\ \A i \in 1..Len(data) : data[i] \in {HexDigits[d] : d \in 1..10}

\* a variant of Padded that adds the zeroes in front
PaddedLeft(data) ==
    IF Len(data) < 16 THEN [i \in 1..(16 - Len(data)) |-> "0"] \o data ELSE data

\* while len(data) < 16: data += "0"
Padded(data) ==
    IF Len(data) < 16 THEN data \o [i \in 1..(16 - Len(data)) |-> "0"] ELSE data

\* bytes.fromhex
FromHex(data) ==
    IF Len(data) % 2 = 1
    THEN [error |-> "ValueError", value |-> << >>]
    ELSE [error |-> "none",
          value |-> [i \in 1..(Len(data) \div 2) |->
                        16 * HexValue(data[2 * i - 1]) + HexValue(data[2 * i])]]

\* bcd_encode
bcd_encode(data) ==
    IF ~IsDigit(data)
    THEN [error |-> "AssertionError", value |-> << >>]
    ELSE FromHex(Padded(data))

\* the masks of two and of four bytes
MaskBytes == {0, 1, 2, 3, 128}

Masks == [1..2 -> MaskBytes] \cup [1..4 -> MaskBytes]

\* the codes: the codes of the tests, every string of up to MaxCode
\* characters of a few, and the strings of up to MaxDigits digits 9
Codes ==
    {<<"0", "0", "0", "0", "0", "0", "0", "0">>,
     <<"1", "2", "3", "4", "5", "6", "7", "8">>,
     <<"2", "2", "1", "7", "0", "3", "0", "2">>}
        \cup UNION {[1..n -> {"0", "7", "a"}] : n \in 0..MaxCode}
        \cup {[i \in 1..n |-> "9"] : n \in 0..MaxDigits}

InitHelpers ==
    /\ NoSession
    /\ called = NoCall
    /\ returned = NoRet
    /\ inputs = NoInputs
    /\ NoConnection

BitPositionToNumeric ==
    \E data \in Masks :
        /\ called' = [fn |-> "bit_position_to_numeric", data |-> data]
        /\ returned' = [of |-> "bit_position_to_numeric", error |-> "none",
                         value |-> bit_position_to_numeric(data)]
        /\ UNCHANGED <<session, inputs, session_id, rx_sequence, forwarded, decoded, writer_lock, sections, outputs, at_eof>>

BcdEncode ==
    \E data \in Codes :
        /\ called' = [fn |-> "bcd_encode", data |-> data]
        /\ returned' = [of |-> "bcd_encode", error |-> bcd_encode(data).error,
                         value |-> bcd_encode(data).value]
        /\ UNCHANGED <<session, inputs, session_id, rx_sequence, forwarded, decoded, writer_lock, sections, outputs, at_eof>>

NextHelpers == BitPositionToNumeric \/ BcdEncode

SpecHelpers == InitHelpers /\ [][NextHelpers]_vars

\* ------------------------------------------- the connection, frame by frame
\* (src/unii/unii_connection.py, src/unii/unii_message.py, src/unii/unii.py).
\* The receive loop and send on the bytes of the frames.  One call of
\* _send_receive at a time, task["app"]; ops counts the messages sent, events
\* the frames received, faults the resets and opens the connections.

POLL_ALIVE_REQUEST == 18
POLL_ALIVE_RESPONSE == 19
REQUEST_INPUT_ARRANGEMENT == 320
RESPONSE_REQUEST_INPUT_ARRANGEMENT == 321

\* the values of the members of UNiiSensorType and of UNiiReaction
SensorTypes == 0..15

Reactions == 0..5

\* the record could not be read: a ValueError or an IndexError
NoRecord == [failed |-> TRUE, entries |-> NoInputs]

\* UNiiInput.__init__ of the bytes of one entry
InputOf(info) ==
    IF Len(info) < 5 \/ info[3] \notin SensorTypes \/ info[4] \notin Reactions
    THEN [failed |-> TRUE, input |-> None]
    ELSE [failed |-> FALSE,
          input |-> UNiiInput(IntFromBytes(Slice(info, 0, 2)), info[3], info[4],
                              IF info[5] > 0 THEN Slice(info, 5, 5 + info[5]) ELSE None,
                              bit_position_to_numeric(Slice(info, 5 + info[5], Len(info))))]

\* the loop of UNiiInputArrangement.__init__ from offset on
RECURSIVE EntriesFrom(_, _, _)
EntriesFrom(data, offset, entries) ==
    IF offset >= Len(data)
    THEN [failed |-> FALSE, entries |-> entries]
    ELSE IF 4 + offset >= Len(data)
    THEN NoRecord
    ELSE IF InputOf(Slice(data, offset, 9 + offset + data[5 + offset])).failed
    THEN NoRecord
    ELSE EntriesFrom(data, offset + 9 + data[5 + offset],
                     DictUpdate(entries,
                         [n \in {IntFromBytes(Slice(data, offset, offset + 2))} |->
                             InputOf(Slice(data, offset, 9 + offset + data[5 + offset])).input]))

\* the data of a message as a handler gets it: None, or an arrangement
NoArrangement == [none |-> TRUE, entries |-> NoInputs]

\* UNiiResponseMessage.__init__, 346-415, of a message that passed the
\* checks of its length and checksum, its data still raw: the record of an input arrangement is read, the block number 0xFFFF
\* gives no data, a record that cannot be read makes the message invalid
Record(m) ==
    IF m.error # "none" \/ ~m.data.present
          \/ m.command # RESPONSE_REQUEST_INPUT_ARRANGEMENT
    THEN m
    ELSE IF Len(m.data.raw) < 2 \/ m.data.raw[2] # 2
    THEN Failed("UNiiInvallidMessageError", NoValue, NoValue)
    ELSE IF IntFromBytes(Slice(m.data.raw, 2, 4)) = 65535
    THEN [m EXCEPT !.data = NoData]
    ELSE IF EntriesFrom(m.data.raw, 4, NoInputs).failed
    THEN Failed("UNiiInvallidMessageError", NoValue, NoValue)
    ELSE [m EXCEPT !.data = [present |-> TRUE, none |-> FALSE,
                             entries |-> EntriesFrom(m.data.raw, 4, NoInputs).entries]]

\* UNiiResponseMessage(response, shared_key) as the receive loop calls it
Received(message, key) == Record(UNiiResponseMessage(message, key))

\* the bytes the receive loop hands to the decoder of a frame that arrived
\* whole: the 14 bytes of the header, then the rest up to the length the
\* header names (229-238)
Assembled(frame) ==
    SubSeq(frame, 1,
           IF IntFromBytes(Slice(frame, 12, 14)) <= 14 THEN 14
           ELSE IF IntFromBytes(Slice(frame, 12, 14)) < Len(frame)
           THEN IntFromBytes(Slice(frame, 12, 14))
           ELSE Len(frame))

\* the key of the session
Key == IF shared_key THEN 1 ELSE NoKey

\* the frames of the peer: a poll alive response, an input arrangement with
\* one input, the block number 0xFFFF, an arrangement of another version, an
\* arrangement whose entry names no sensor type, a poll alive response with
\* a wrong checksum, and a header that names less bytes than were read
FrameKinds == {"poll", "arrangement", "end", "version", "entry", "crc", "header"}

PeerData(kind) ==
    CASE kind = "arrangement" -> Raw(<<0, 2, 0, 1, 0, 1, 1, 0, 0, 0, 0, 0, 0>>)
      [] kind = "end" -> Raw(<<0, 2, 255, 255>>)
      [] kind = "version" -> Raw(<<0, 1, 0, 1>>)
      [] kind = "entry" -> Raw(<<0, 2, 0, 1, 0, 1, 99, 0, 0, 0, 0, 0, 0>>)
      [] OTHER -> NoData

\* the kind, session id and tx_sequence of a frame, and how far its
\* rx_sequence is ahead of the sequence number sent last: every header for a
\* poll alive response, one header for the other kinds
PeerHeaders ==
    [kind : {"poll"}, sid : SessionIds, tx : Sequences, ahead : {0, 1}]
        \cup [kind : FrameKinds \ {"poll"}, sid : {61705}, tx : {146680915}, ahead : {0}]

PeerMessage(kind, sid, tx, rx) ==
    [session_id |-> sid, tx_sequence |-> tx, rx_sequence |-> rx,
     command |-> IF kind \in {"poll", "crc", "header"}
                 THEN POLL_ALIVE_RESPONSE ELSE RESPONSE_REQUEST_INPUT_ARRANGEMENT,
     data |-> PeerData(kind)]

Frame(kind, m, key) ==
    CASE kind = "crc" -> Damaged(to_bytes(m, key), "crc")
      [] kind = "header" -> [SubSeq(to_bytes(m, key), 1, 14) EXCEPT ![13] = 0, ![14] = 13]
      [] OTHER -> to_bytes(m, key)

\* random.randint(0, 65535), one of its values
TxSeeds == {0}

\* a variant of Outbound that answers with the sequence number it sends
OutboundEcho(command) ==
    [session_id |-> session_id, tx_sequence |-> tx_sequence + 1,
     rx_sequence |-> tx_sequence, command |-> command, data |-> NoData]

\* the message of UNiiTCPConnection.send (297-303)
Outbound(command) ==
    [session_id |-> session_id, tx_sequence |-> tx_sequence + 1,
     rx_sequence |-> rx_sequence, command |-> command, data |-> NoData]

\* a variant of Accepted: the receive loop goes on with what was decoded
AcceptedAlways(m) == TRUE

\* the decoder raised no UNiiMessageError (243, 273-274)
Accepted(m) == m.error = "none"

InitConnection ==
    /\ shared_key = FALSE
    /\ writer = FALSE
    /\ receive_task = "none"
    /\ tx_sequence = -1
    /\ connected = FALSE
    /\ poll_alive_task = "none"
    /\ equipment_information = None
    /\ waiting_for_message = [q \in {} |-> None]
    /\ received_message_queue = [q \in {} |-> None]
    /\ task = [t \in Tasks |-> Idle]
    /\ wire = NoWire
    /\ trace = << >>
    /\ ops = 0
    /\ faults = 0
    /\ events = 0
    /\ opens = 0
    /\ limit = [ops |-> MaxSent, faults |-> 1, events |-> MaxFrames, opens |-> 2]
    /\ last_message_sent = 0
    /\ called = NoCall
    /\ returned = NoRet
    /\ inputs = NoInputs
    /\ NoConnection

\* UNiiTCPConnection.connect (142-157)
OpenConnection ==
    /\ ~writer
    /\ opens < limit.opens
    /\ writer' = TRUE
    /\ session_id' = 65535
    /\ tx_sequence' \in TxSeeds
    /\ receive_task' = "running"
    /\ opens' = opens + 1
    /\ UNCHANGED <<shared_key, connected, poll_alive_task, equipment_information,
                   waiting_for_message, received_message_queue, task, wire, trace,
                   ops, faults, events, limit, last_message_sent, called, returned,
                   inputs, rx_sequence, forwarded, decoded, writer_lock, sections, outputs, at_eof>>

\* _send_receive up to its first sleep: UNiiTCPConnection.send (291-314),
\* then the registration of _get_received_message (474-475)
SendFrame ==
    /\ writer
    /\ ops < limit.ops
    /\ task["app"].pc = "idle"
    /\ \E command \in {POLL_ALIVE_REQUEST, REQUEST_INPUT_ARRANGEMENT} :
         /\ called' = [fn |-> "send", command |-> command]
         /\ returned' = [of |-> "send", value |-> to_bytes(Outbound(command), Key)]
         /\ waiting_for_message' =
                [q \in DOMAIN waiting_for_message \cup {tx_sequence + 1} |->
                    IF q = tx_sequence + 1 THEN command + 1 ELSE waiting_for_message[q]]
         /\ task' = [task EXCEPT !["app"].pc = "waiting", !["app"].seq = tx_sequence + 1,
                                 !["app"].expected = command + 1]
    /\ tx_sequence' = tx_sequence + 1
    /\ ops' = ops + 1
    /\ UNCHANGED <<shared_key, writer, receive_task, connected, poll_alive_task,
                   equipment_information, received_message_queue, wire, trace,
                   faults, events, opens, limit, last_message_sent, inputs,
                   session_id, rx_sequence, forwarded, decoded, writer_lock, sections, outputs, at_eof>>

\* _get_received_message finds its message and pops it (476-479)
TakeMessage ==
    /\ task["app"].pc = "waiting"
    /\ writer
    /\ task["app"].seq \in DOMAIN received_message_queue
    /\ received_message_queue' =
           [q \in DOMAIN received_message_queue \ {task["app"].seq} |->
               received_message_queue[q]]
    /\ task' = [task EXCEPT !["app"].pc = "idle"]
    /\ UNCHANGED <<shared_key, writer, receive_task, tx_sequence, connected,
                   poll_alive_task, equipment_information, waiting_for_message,
                   wire, trace, ops, faults, events, opens, limit,
                   last_message_sent, called, returned, inputs,
                   session_id, rx_sequence, forwarded, decoded, writer_lock, sections, outputs, at_eof>>

\* _get_received_message gives up: the deadline passed or the socket is
\* closed (476, 483-485)
LeaveWaiting ==
    /\ task["app"].pc = "waiting"
    /\ waiting_for_message' =
           [q \in DOMAIN waiting_for_message \ {task["app"].seq} |->
               waiting_for_message[q]]
    /\ task' = [task EXCEPT !["app"].pc = "idle"]
    /\ UNCHANGED <<shared_key, writer, receive_task, tx_sequence, connected,
                   poll_alive_task, equipment_information, received_message_queue,
                   wire, trace, ops, faults, events, opens, limit,
                   last_message_sent, called, returned, inputs,
                   session_id, rx_sequence, forwarded, decoded, writer_lock, sections, outputs, at_eof>>

\* one turn of _receive_coroutine with a frame of the peer (229-274), the
\* callback of UNiiLocal included (438-469)
ReceiveFrame ==
    /\ writer
    /\ receive_task = "running"
    /\ events < limit.events
    /\ \E h \in PeerHeaders :
         \E message \in {Assembled(Frame(h.kind, PeerMessage(h.kind, h.sid, h.tx,
                                                                tx_sequence + h.ahead), Key))} :
           \E m \in {Received(message, Key)} :
             /\ called' = [fn |-> "_receive_coroutine", message |-> message]
             /\ returned' = [of |-> "_receive_coroutine", value |-> m]
             /\ IF ~Accepted(m)
                THEN UNCHANGED <<session_id, rx_sequence, decoded, inputs,
                                 received_message_queue, forwarded>>
                ELSE /\ session_id' = m.session_id
                     /\ rx_sequence' = m.tx_sequence
                     /\ decoded' = [present |-> TRUE, session_id |-> m.session_id,
                                    tx_sequence |-> m.tx_sequence, conn |-> opens]
                     /\ inputs' = IF m.command = RESPONSE_REQUEST_INPUT_ARRANGEMENT
                                  THEN handle_input_arrangement(inputs,
                                           IF m.data.present THEN m.data ELSE NoArrangement)
                                  ELSE inputs
                     /\ received_message_queue' =
                            IF /\ m.rx_sequence \in DOMAIN waiting_for_message
                               /\ waiting_for_message[m.rx_sequence] = m.command
                            THEN [q \in DOMAIN received_message_queue \cup {m.rx_sequence} |->
                                     IF q = m.rx_sequence
                                     THEN [command |-> m.command, data |-> m.data]
                                     ELSE received_message_queue[q]]
                            ELSE received_message_queue
                     /\ forwarded' = Append(forwarded, m.command)
    /\ events' = events + 1
    /\ UNCHANGED <<shared_key, writer, receive_task, tx_sequence, connected,
                   poll_alive_task, equipment_information, waiting_for_message,
                   task, wire, trace, ops, faults, opens, limit, last_message_sent,
                   writer_lock, sections, outputs, at_eof>>

NextConnection ==
    \/ OpenConnection
    \/ SendFrame
    \/ TakeMessage
    \/ LeaveWaiting
    \/ ReceiveFrame
    \/ ReadReset

SpecConnection == InitConnection /\ [][NextConnection]_vars

\* --------------------------------------------------- equipment information
\* (src/unii/unii.py 368-377, src/unii/unii_command_data.py 144-231).  In this
\* specification equipment_information holds the object with its attributes,
\* and forwarded the commands the subscribers were called with.

\* data is None, and self.equipment_information = None
NoEquipment == [none |-> TRUE]

\* the serial number and the MAC address UNiiEquipmentInformation.__init__
\* takes from a device id (193-200), for the device ids used here
SerialOf(device_id) == IF device_id = "none" THEN "none" ELSE "UNII" \o device_id

MacOf(device_id) == IF device_id = "none" THEN "none" ELSE "00:" \o device_id

\* the attributes of a UNiiEquipmentInformation (152-204)
UNiiEquipmentInformation(software_version, device_name, max_inputs, device_id) ==
    [none |-> FALSE,
     software_version |-> software_version,
     software_date |-> IF device_id = "none" THEN "01-02-2024" ELSE "none",
     device_name |-> device_name,
     max_inputs |-> max_inputs,
     max_groups |-> 32,
     max_sections |-> 8,
     max_users |-> 200,
     device_id |-> device_id,
     serial_number |-> SerialOf(device_id),
     mac_address |-> MacOf(device_id)]

\* a variant of __eq__ that looks at the software version only
EqVersion(self, other) == self.software_version = other.software_version

\* UNiiEquipmentInformation.__eq__ of two objects of the class (220-231)
Eq(self, other) ==
    /\ self.software_version = other.software_version
    /\ self.software_date = other.software_date
    /\ self.device_name = other.device_name
    /\ self.max_inputs = other.max_inputs
    /\ self.max_groups = other.max_groups
    /\ self.max_sections = other.max_sections
    /\ self.max_users = other.max_users
    /\ self.device_id = other.device_id
    /\ self.serial_number = other.serial_number
    /\ self.mac_address = other.mac_address

\* self != other for self of the class: __eq__ returns NotImplemented for an
\* other of another type (216-218), and Python then compares the identities
Ne(self, other) == IF other.none THEN TRUE ELSE ~Eq(self, other)

\* the data of the messages: None and the objects of two firmware versions,
\* two names, two numbers of inputs, with and without a device id
Snapshots ==
    {NoEquipment}
        \cup {UNiiEquipmentInformation(software_version, device_name, max_inputs, device_id) :
                software_version \in {<<2, 16, 0>>, <<2, 17, 1>>},
                device_name \in {"UNii", "Home"},
                max_inputs \in {32, 128},
                device_id \in {"none", "A1"}}

InitEquipment ==
    /\ shared_key = FALSE
    /\ writer = FALSE
    /\ receive_task = "none"
    /\ tx_sequence = -1
    /\ connected = FALSE
    /\ poll_alive_task = "none"
    /\ equipment_information = NoEquipment
    /\ waiting_for_message = [q \in {} |-> None]
    /\ received_message_queue = [q \in {} |-> None]
    /\ task = [t \in Tasks |-> Idle]
    /\ wire = NoWire
    /\ trace = << >>
    /\ ops = 0
    /\ faults = 0
    /\ events = 0
    /\ opens = 0
    /\ limit = [ops |-> 0, faults |-> 0, events |-> MaxSnapshots, opens |-> 0]
    /\ last_message_sent = 0
    /\ called = NoCall
    /\ returned = NoRet
    /\ inputs = NoInputs
    /\ NoConnection

\* _message_received_callback of a RESPONSE_REQUEST_EQUIPMENT_INFORMATION no
\* call waits for: _handle_equipment_information (368-377), then the message
\* itself goes to the subscribers (469)
EquipmentInformation ==
    /\ events < limit.events
    /\ \E data \in Snapshots :
         /\ called' = [fn |-> "_handle_equipment_information", data |-> data]
         /\ forwarded' =
                (IF ~equipment_information.none /\ Ne(equipment_information, data)
                 THEN Append(forwarded, "RELOAD_CONFIGURATION")
                 ELSE forwarded)
                    \o <<"RESPONSE_REQUEST_EQUIPMENT_INFORMATION">>
         /\ equipment_information' = data
    /\ events' = events + 1
    /\ UNCHANGED <<shared_key, writer, receive_task, tx_sequence, connected,
                   poll_alive_task, waiting_for_message, received_message_queue,
                   task, wire, trace, ops, faults, opens, limit, last_message_sent,
                   returned, inputs, session_id, rx_sequence, decoded, writer_lock, sections, outputs, at_eof>>

NextEquipment == EquipmentInformation

SpecEquipment == InitEquipment /\ [][NextEquipment]_vars

\* ----------------------------------------------------------- the write path
\* (src/unii/unii_connection.py 169-186, 291-319).  _writer_lock is a
\* threading.Lock: acquiring it while it is held blocks the thread, and the
\* thread is the one of the event loop.  send holds the lock across
\* await drain(), _close across await wait_closed(); each of the two awaits
\* suspends the task or returns at once, as the transport decides.  A task is
\* idle, suspended in "drain" or in "wait_closed", or "blocked" in acquire.

\* the variables the write path leaves alone
besides ==
    <<shared_key, receive_task, connected, poll_alive_task, equipment_information,
      waiting_for_message, received_message_queue, wire, trace, events, limit,
      last_message_sent, called, returned, inputs, session_id, rx_sequence,
      forwarded, decoded, sections, outputs, at_eof>>

\* the thread of the event loop runs tasks: none of them blocks it
ThreadRuns == \A t \in Tasks : task[t].pc # "blocked"

InitWriter ==
    /\ shared_key = FALSE
    /\ writer = FALSE
    /\ receive_task = "none"
    /\ tx_sequence = -1
    /\ connected = FALSE
    /\ poll_alive_task = "none"
    /\ equipment_information = None
    /\ waiting_for_message = [q \in {} |-> None]
    /\ received_message_queue = [q \in {} |-> None]
    /\ task = [t \in Tasks |-> Idle]
    /\ wire = NoWire
    /\ trace = << >>
    /\ ops = 0
    /\ faults = 0
    /\ events = 0
    /\ opens = 0
    /\ limit = [ops |-> MaxWrites, faults |-> 1, events |-> 0, opens |-> 2]
    /\ last_message_sent = 0
    /\ called = NoCall
    /\ returned = NoRet
    /\ inputs = NoInputs
    /\ NoConnection

\* connect() opens the socket (142-157)
WriterOpen ==
    /\ ThreadRuns
    /\ ~writer
    /\ opens < limit.opens
    /\ \A t \in Tasks : task[t].pc = "idle"
    /\ writer' = TRUE
    /\ tx_sequence' \in TxSeeds
    /\ opens' = opens + 1
    /\ UNCHANGED <<besides, task, ops, faults, writer_lock, sections, outputs, at_eof>>

\* send (291-314): the sequence number, then the lock, write and drain
WriterSend(t) ==
    /\ ThreadRuns
    /\ task[t].pc = "idle"
    /\ writer
    /\ ops < limit.ops
    /\ ops' = ops + 1
    /\ tx_sequence' = tx_sequence + 1
    /\ IF writer_lock # "free"
       THEN /\ task' = [task EXCEPT ![t].pc = "blocked", ![t].seq = tx_sequence + 1]
            /\ UNCHANGED writer_lock
       ELSE \/ /\ task' = [task EXCEPT ![t].pc = "drain", ![t].seq = tx_sequence + 1]
               /\ writer_lock' = t
            \/ /\ task' = [task EXCEPT ![t].seq = tx_sequence + 1]
               /\ UNCHANGED writer_lock
    /\ UNCHANGED <<besides, writer, faults, opens>>

\* drain() returns: the lock is released and send returns (309-314)
Drained(t) ==
    /\ ThreadRuns
    /\ task[t].pc = "drain"
    /\ task' = [task EXCEPT ![t].pc = "idle"]
    /\ writer_lock' = "free"
    /\ UNCHANGED <<besides, writer, tx_sequence, ops, faults, opens>>

\* close() and _close() (169-192) up to wait_closed(), and, where it does
\* not suspend, to the end
WriterClose(t) ==
    /\ ThreadRuns
    /\ task[t].pc = "idle"
    /\ writer
    /\ IF writer_lock # "free"
       THEN /\ task' = [task EXCEPT ![t].pc = "blocked"]
            /\ UNCHANGED <<writer, writer_lock, sections, outputs, at_eof>>
       ELSE \/ /\ task' = [task EXCEPT ![t].pc = "wait_closed"]
               /\ writer_lock' = t
               /\ UNCHANGED writer
            \/ /\ writer' = FALSE
               /\ UNCHANGED <<task, writer_lock, sections, outputs, at_eof>>
    /\ UNCHANGED <<besides, tx_sequence, ops, faults, opens>>

\* drain() raises ConnectionResetError: the lock is released, send calls
\* close() (315-317), which takes the lock again
DrainReset(t) ==
    /\ ThreadRuns
    /\ task[t].pc = "drain"
    /\ faults < limit.faults
    /\ faults' = faults + 1
    /\ \/ /\ task' = [task EXCEPT ![t].pc = "wait_closed"]
          /\ UNCHANGED <<writer, writer_lock, sections, outputs, at_eof>>
       \/ /\ task' = [task EXCEPT ![t].pc = "idle"]
          /\ writer' = FALSE
          /\ writer_lock' = "free"
    /\ UNCHANGED <<besides, tx_sequence, ops, opens>>

\* wait_closed() returns: the lock is released, _writer = None (173-179)
WaitClosed(t) ==
    /\ ThreadRuns
    /\ task[t].pc = "wait_closed"
    /\ task' = [task EXCEPT ![t].pc = "idle"]
    /\ writer_lock' = "free"
    /\ writer' = FALSE
    /\ UNCHANGED <<besides, tx_sequence, ops, faults, opens>>

NextWriter ==
    \/ WriterOpen
    \/ \E t \in Tasks : WriterSend(t)
    \/ \E t \in Tasks : Drained(t)
    \/ \E t \in Tasks : WriterClose(t)
    \/ \E t \in Tasks : DrainReset(t)
    \/ \E t \in Tasks : WaitClosed(t)

SpecWriter == InitWriter /\ [][NextWriter]_vars

\* ---------------------------------------- the callback, message by message
\* (src/unii/unii.py 126-134, 389-407, 435-469, with the records of
\* src/unii/unii_command_data.py).  The receive loop hands one decoded message
\* at a time to UNiiLocal._message_received_callback.

\* dict.__setitem__
Put(table, k, v) == [n \in DOMAIN table \cup {k} |-> IF n = k THEN v ELSE table[n]]

\* UNiiSection.__init__ of the bytes of one section, version 0 or 1; the name
\* is kept as its bytes
UNiiSection(data) ==
    [active |-> data[2] = 1,
     name |-> IF data[1] = 0 THEN Slice(data, 2, 19) ELSE Slice(data, 3, 3 + data[3])]

\* UNiiSectionArrangement.__init__: the sections are numbered from 1 in the
\* order of the message
RECURSIVE SectionsFrom(_, _, _, _)
SectionsFrom(data, offset, index, table) ==
    IF offset >= Len(data)
    THEN table
    ELSE LET section_length == IF data[offset + 1] = 1 THEN data[offset + 3] + 3 ELSE 19
             section == UNiiSection(Slice(data, offset, offset + section_length))
         IN SectionsFrom(data, offset + section_length, index + 1,
                         Put(table, index, DictUpdate(section, [number |-> index])))

UNiiSectionArrangement(data) == SectionsFrom(data, 0, 1, NoInputs)

\* UNiiSectionStatusRecord.__init__ of a chunk of two bytes
UNiiSectionStatusRecord(chunk) == [number |-> chunk[1], armed_state |-> chunk[2]]

\* UNiiSectionStatus.__init__: a later chunk of a number replaces the earlier
RECURSIVE StatusFrom(_, _, _)
StatusFrom(data, pos, table) ==
    IF pos >= Len(data)
    THEN table
    ELSE StatusFrom(data, pos + 2,
                    Put(table, UNiiSectionStatusRecord(Slice(data, pos, pos + 2)).number,
                        UNiiSectionStatusRecord(Slice(data, pos, pos + 2))))

UNiiSectionStatus(data) == StatusFrom(data, 0, NoInputs)

\* UNiiOutput.__init__ of the bytes of one output
UNiiOutput(data) ==
    [number |-> IntFromBytes(Slice(data, 0, 2)),
     type |-> data[3],
     name |-> IF data[4] > 0 THEN Slice(data, 4, 4 + data[4]) ELSE None,
     sections |-> bit_position_to_numeric(Slice(data, 5 + data[4], Len(data)))]

\* UNiiOutputArrangement.__init__ of a block of version 1
RECURSIVE OutputsFrom(_, _, _)
OutputsFrom(data, offset, table) ==
    IF offset >= Len(data)
    THEN table
    ELSE LET output_information == UNiiOutput(Slice(data, offset, 8 + offset + data[4 + offset]))
         IN OutputsFrom(data, offset + 8 + data[4 + offset],
                        Put(table, output_information.number, output_information))

UNiiOutputArrangement(data) == OutputsFrom(data, 4, NoInputs)

\* a variant of handle_section_status that leaves the active flag alone
handle_section_status_keeps(table, data) ==
    [n \in DOMAIN table |->
        IF n \in DOMAIN data THEN DictUpdate(table[n], data[n]) ELSE table[n]]

\* a variant of handle_section_arrangement that adds inactive sections too
handle_section_arrangement_all(table, data) ==
    [n \in DOMAIN table \cup DOMAIN data |->
        IF n \in DOMAIN table /\ n \in DOMAIN data THEN DictUpdate(table[n], data[n])
        ELSE IF n \in DOMAIN table THEN table[n]
        ELSE data[n]]

\* UNiiLocal._handle_section_arrangement (389-394); the entries of a message
\* have different numbers, so each number is settled by its own entry
handle_section_arrangement(table, data) ==
    [n \in DOMAIN table \cup {k \in DOMAIN data : data[k].active} |->
        IF n \in DOMAIN table /\ n \in DOMAIN data THEN DictUpdate(table[n], data[n])
        ELSE IF n \in DOMAIN table THEN table[n]
        ELSE data[n]]

\* UNiiLocal._handle_section_status (396-407)
handle_section_status(table, data) ==
    [n \in DOMAIN table |->
        IF n \in DOMAIN data
        THEN DictUpdate(table[n],
                        DictUpdate(data[n],
                                   [active |-> data[n].armed_state # NOT_PROGRAMMED]))
        ELSE table[n]]

\* self._event_occurred_callbacks, in the order they were added
Subscribers == <<"first", "second">>

\* UNiiLocal._forward_to_event_occurred_callbacks (126-134): every callback is
\* called in turn; the exception of one is logged and the loop goes on
Forwarded(log, command, raises) ==
    log \o [i \in 1..Len(Subscribers) |->
               [ev |-> "callback", to |-> Subscribers[i], command |-> command,
                raised |-> Subscribers[i] \in raises]]

\* the log of the run after connection.send returned r
Acknowledged(log, r, command) ==
    IF r.ret # NoSeq
    THEN Append(log, [ev |-> "send", to |-> "peer", command |-> command, raised |-> FALSE])
    ELSE log

\* the messages the peer sends: sections of version 1 with a name of one
\* byte, chunks of a section status, blocks of outputs, an event, an answer
\* to a poll, and answers without a payload
SectionBytes ==
    {<<1, active, 1, name>> : active \in {0, 1}, name \in {72, 83}}

SectionArrangementBytes ==
    {<< >>} \cup SectionBytes
        \cup {a \o b : a \in SectionBytes, b \in {c \in SectionBytes : c[4] = 83}}

SectionChunks ==
    {<<number, armed_state>> : number \in 1..MaxSections,
                               armed_state \in {NOT_PROGRAMMED, ARMED}}

SectionStatusBytes ==
    {<< >>} \cup SectionChunks \cup {a \o b : a \in SectionChunks, b \in SectionChunks}

OutputBytes == {<<0, number, 1, 1, 79, 0, 0, 0, 1>> : number \in 1..MaxSections}

OutputArrangementBytes ==
    {<<0, 1, 0, 1>> \o entries :
        entries \in {<< >>} \cup OutputBytes
                        \cup {a \o b : a \in OutputBytes, b \in OutputBytes}}

Payload(entries) == [none |-> FALSE, entries |-> entries]

NoPayload == [none |-> TRUE, entries |-> NoInputs]

CallbackMessages ==
    [command : {"EVENT_OCCURRED"}, data : {Payload(NoInputs)}]
        \cup [command : {"POLL_ALIVE_RESPONSE"}, data : {NoPayload}]
        \cup [command : {"RESPONSE_REQUEST_SECTION_ARRANGEMENT"},
              data : {NoPayload} \cup {Payload(UNiiSectionArrangement(raw)) :
                                          raw \in SectionArrangementBytes}]
        \cup [command : {"RESPONSE_REQUEST_SECTION_STATUS"},
              data : {NoPayload} \cup {Payload(UNiiSectionStatus(raw)) :
                                          raw \in SectionStatusBytes}]
        \cup [command : {"RESPONSE_REQUEST_OUTPUT_ARRANGEMENT"},
              data : {Payload(UNiiOutputArrangement(raw)) :
                         raw \in OutputArrangementBytes}]

\* the handlers that call a method of their argument (389-407)
ReadsTable == {"RESPONSE_REQUEST_SECTION_ARRANGEMENT", "RESPONSE_REQUEST_SECTION_STATUS"}

\* the socket is open and the receive loop runs; connected is false while
\* the handshake goes on and true after it
InitCallback ==
    /\ shared_key = FALSE
    /\ writer = TRUE
    /\ receive_task = "running"
    /\ tx_sequence = 1
    /\ connected \in BOOLEAN
    /\ poll_alive_task = "none"
    /\ equipment_information \in {"fw_2_16", "fw_2_17"}
    /\ waiting_for_message = [q \in {} |-> None]
    /\ received_message_queue = [q \in {} |-> None]
    /\ task = [t \in Tasks |-> Idle]
    /\ wire = [NoWire EXCEPT !.n = 1, !.tx = 1, !.prev = 0,
                             !.command = "CONNECTION_REQUEST", !.seqs = {1}]
    /\ trace = << >>
    /\ ops = 1
    /\ faults = 0
    /\ events = 0
    /\ opens = 1
    /\ limit = [ops |-> 1, faults |-> 1, events |-> MaxEvents, opens |-> 1]
    /\ last_message_sent = 0
    /\ called = NoCall
    /\ returned = NoRet
    /\ inputs = NoInputs
    /\ NoConnection

\* UNiiLocal._message_received_callback (435-469) of one decoded message, as
\* awaited by the receive loop: an exception of a handler or of the
\* acknowledgement leaves the callback and ends the loop
MessageReceived ==
    /\ receive_task = "running"
    /\ writer
    /\ \E m \in CallbackMessages, ok \in Oks, raises \in {{}, {Subscribers[1]}} :
         LET event == m.command = "EVENT_OCCURRED"
             ack == IF event /\ connected
                    THEN ConnSend(St, "recv", "RESPONSE_EVENT_OCCURRED", ok)
                    ELSE R(St, NoSeq, "none")
             first == IF event THEN Forwarded(<< >>, m.command, raises) ELSE << >>
             second == Acknowledged(first, ack, "RESPONSE_EVENT_OCCURRED")
             raised == m.command \in ReadsTable /\ m.data.none
             s == Deliver(ack.s, [rx |-> 0, command |-> m.command, data |-> m.data])
         IN /\ event => events < limit.events
            /\ raised => faults < limit.faults
            /\ ~(event /\ connected) => ok
            /\ called' = [fn |-> "_message_received_callback", command |-> m.command,
                          data |-> m.data]
            /\ sections' =
                 IF m.data.none THEN sections
                 ELSE IF m.command = "RESPONSE_REQUEST_SECTION_ARRANGEMENT"
                 THEN handle_section_arrangement(sections, m.data.entries)
                 ELSE IF m.command = "RESPONSE_REQUEST_SECTION_STATUS"
                 THEN handle_section_status(sections, m.data.entries)
                 ELSE sections
            /\ outputs' = outputs
            /\ IF ack.exc # "none"
               THEN /\ trace' = second
                    /\ writer' = ack.s.writer
                    /\ receive_task' = ack.s.receive_task
                    /\ received_message_queue' = ack.s.received_message_queue
                    /\ faults' = ack.s.faults
               ELSE IF raised
               THEN /\ trace' = second
                    /\ receive_task' = "dead"
                    /\ faults' = faults + 1
                    /\ UNCHANGED <<writer, received_message_queue>>
               ELSE /\ trace' = Forwarded(second, m.command, raises)
                    /\ received_message_queue' = s.received_message_queue
                    /\ UNCHANGED <<writer, receive_task, faults>>
            /\ tx_sequence' = ack.s.tx_sequence
            /\ wire' = ack.s.wire
            /\ last_message_sent' = ack.s.last_message_sent
            /\ events' = IF event THEN events + 1 ELSE events
    /\ UNCHANGED <<shared_key, connected, poll_alive_task, equipment_information,
                   waiting_for_message, task, ops, opens, limit, returned, inputs,
                   session_id, rx_sequence, forwarded, decoded, writer_lock, at_eof>>

\* the handshake ends: self.connected = True (282)
HandshakeEnds ==
    /\ receive_task = "running"
    /\ writer
    /\ ~connected
    /\ connected' = TRUE
    /\ UNCHANGED <<shared_key, writer, receive_task, tx_sequence, poll_alive_task,
                   equipment_information, waiting_for_message, received_message_queue,
                   task, wire, trace, ops, faults, events, opens, limit,
                   last_message_sent, called, returned, inputs, session_id,
                   rx_sequence, forwarded, decoded, writer_lock, sections, outputs, at_eof>>

NextCallback == MessageReceived \/ HandshakeEnds

SpecCallback == InitCallback /\ [][NextCallback]_vars

\* --------------------------------------------- the peer closes the stream
\* (src/unii/unii_connection.py 226-289).  The peer accepts one connection,
\* answers nothing and may close its side at any moment, after which
\* reader.read returns b"" at once.

\* the peer closes the TCP connection: the reader is at end-of-stream
PeerCloses ==
    /\ writer
    /\ ~at_eof
    /\ at_eof' = TRUE
    /\ UNCHANGED <<session, called, returned, inputs, session_id, rx_sequence,
                   forwarded, decoded, writer_lock, sections, outputs>>

\* one turn of the receive loop at end-of-stream (229-231): read returns
\* b"", which is shorter than 13 bytes, and the loop continues; the socket
\* and the task are as they were
ReadEof ==
    /\ receive_task = "running"
    /\ writer
    /\ at_eof
    /\ returned' = [of |-> "read", value |-> << >>]
    /\ UNCHANGED <<session, called, inputs, session_id, rx_sequence,
                   forwarded, decoded, writer_lock, sections, outputs, at_eof>>

\* the application calls up to MaxCalls operations, the peer accepts one
\* connection and every write succeeds
InitEndOfStream ==
    /\ shared_key \in BOOLEAN
    /\ writer = FALSE
    /\ receive_task = "none"
    /\ tx_sequence = -1
    /\ connected = FALSE
    /\ poll_alive_task = "none"
    /\ equipment_information = None
    /\ waiting_for_message = [q \in {} |-> None]
    /\ received_message_queue = [q \in {} |-> None]
    /\ task = [t \in Tasks |-> Idle]
    /\ wire = NoWire
    /\ trace = << >>
    /\ ops = 0
    /\ faults = 0
    /\ events = 0
    /\ opens = 0
    /\ limit = [ops |-> MaxCalls, faults |-> 0, events |-> 0, opens |-> 1]
    /\ last_message_sent = 0
    /\ called = NoCall
    /\ returned = NoRet
    /\ inputs = NoInputs
    /\ NoConnection

\* the 5 s deadline of a wait passes, as in Expire; the clock runs on, so no
\* budget is charged
DeadlinePasses(t) ==
    /\ task[t].pc = "waiting"
    /\ writer
    /\ ~task[t].expired
    /\ task[t].after => (task[Other(t)].pc # "waiting" \/ task[Other(t)].expired)
    /\ task' = [task EXCEPT ![t].expired = TRUE]
    /\ UNCHANGED <<shared_key, writer, receive_task, tx_sequence, connected,
                   poll_alive_task, equipment_information, waiting_for_message,
                   received_message_queue, wire, trace, ops, faults, events, opens, limit,
                   last_message_sent, called, returned, inputs,
                   session_id, rx_sequence, forwarded, decoded, writer_lock, sections,
                   outputs, at_eof>>

\* the wait of the running call is over: ReturnTimeout is enabled
WaitOver ==
    /\ task["app"].pc = "waiting"
    /\ ~writer \/ task["app"].expired

\* what the event loop and the clock do without the application and the peer
\* (no request is answered, so no handshake completes and no keep-alive loop
\* is started)
Internal ==
    \/ Complete
    \/ \E t \in Tasks : DeadlinePasses(t)
    \/ \E t \in Tasks : ReturnTimeout(t)
    \/ ReadEof

NextEndOfStream ==
    \/ StartConnect
    \/ StartDisconnect
    \/ StartArmDisarm
    \/ \E t \in Tasks : Opened(t)
    \/ \E t \in Tasks : OpenFailed(t)
    \/ PeerCloses
    \/ Internal

\* the tasks of the event loop run and the deadlines pass; the application
\* and the peer are free to do nothing
SpecEndOfStream ==
    /\ InitEndOfStream
    /\ [][NextEndOfStream]_vars
    /\ WF_vars(Complete)
    /\ WF_vars(ReadEof)
    /\ WF_vars(DeadlinePasses("app"))
    /\ []<>~WaitOver

\* ------------------------------------------------------------------ claims
\* the call of op by the application returns or raises in this step
Returns(op) ==
    /\ task["app"].pc # "returned"
    /\ task'["app"].pc = "returned"
    /\ task'["app"].op = op

\* C1: whenever connect() returns false or raises the encryption error, the
\* socket is closed at the moment it returns
C1_FailedConnectClosesSocket ==
    [][(Returns("connect") /\ task'["app"].result \in {"false", "enc"}) => ~writer']_vars

\* C2: connect() raises the encryption error exactly when a key is configured
\* and the CONNECTION_REQUEST was written and its wait ended without a
\* response; it returns false when the socket could not be opened, and
\* when no key is configured and the CONNECTION_REQUEST got no response
C2_EncryptionError ==
    [][Returns("connect") =>
          /\ task'["app"].result = "enc"
                <=> (shared_key /\ task'["app"].missed /\ ~task'["app"].crr)
          /\ ~task'["app"].opened => task'["app"].result = "false"
          /\ (~shared_key /\ ~task'["app"].crr) => task'["app"].result = "false"]_vars

\* C2: connect() has raised the encryption error
C2_Witness ==
    /\ task["app"].pc = "returned"
    /\ task["app"].op = "connect"
    /\ task["app"].result = "enc"
    /\ task["app"].opened

\* C2 as stated: with a key, connect() raises the encryption error exactly
\* when the socket was opened and no CONNECTION_REQUEST_RESPONSE was received
C2_AsStated ==
    [][(Returns("connect") /\ shared_key) =>
          (task'["app"].result = "enc"
              <=> (task'["app"].opened /\ ~task'["app"].crr))]_vars

\* C3: connect() returns true only when every handshake request has received
\* its expected response
C3_TrueOnlyOnFullHandshake ==
    [][(Returns("connect") /\ task'["app"].result = "true")
          => (connected' /\ ~task'["app"].missed)]_vars

\* C4: a call returns a message only when the rx_sequence of the message is
\* the sequence number of the call and its command is the expected response
\* of the call (or none was named), the request and the message being of one
\* connection; calls that wait on one connection have distinct sequence numbers
C4_Correlation ==
    /\ \A t \in Tasks :
          (task[t].got.command # None /\ task[t].got.conn = task[t].got.call)
             => /\ task[t].got.rx = task[t].got.seq
                /\ task[t].got.expected \in {None, task[t].got.command}
    /\ \A t, u \in Tasks :
          (/\ t # u
           /\ task[t].pc = "waiting"
           /\ task[u].pc = "waiting"
           /\ task[t].conn = task[u].conn)
             => task[t].seq # task[u].seq

\* C4: the keep-alive loop has taken a response and waits for the next one
\* while a call of the application waits on the same connection
C4_Witness ==
    /\ task["poll"].got.command = "POLL_ALIVE_RESPONSE"
    /\ task["poll"].pc = "waiting"
    /\ task["app"].pc = "waiting"
    /\ task["app"].conn = task["poll"].conn

\* C5: a send_receive call whose wait ends without a matching message returns
\* "no response" (it does not raise), and at that point the waiting table
\* holds no registration under its sequence number
C5_TimeoutReturnsNoResponse ==
    [][\A t \in Tasks :
          (/\ task'[t].got # task[t].got
           /\ task'[t].got.seq # NoSeq
           /\ task'[t].got.command = None)
             => /\ task'[t].got.raised = "none"
                /\ task'[t].got.seq \notin DOMAIN waiting_for_message']_vars

\* C6: when no send_receive call is waiting, the waiting table and the
\* received-message table are empty
C6_TablesEmptyAfterCalls ==
    (\A t \in Tasks : task[t].pc # "waiting")
       => /\ DOMAIN waiting_for_message = {}
          /\ DOMAIN received_message_queue = {}

\* C7: on one connection every message written carries the sequence number
\* one greater than the one assigned before it, the numbers increase and no
\* two messages share one
C7_SequenceNumbers ==
    wire.n > 0
       => /\ wire.tx = wire.prev + 1
          /\ \A q \in wire.seqs : q <= wire.tx
          /\ Cardinality(wire.seqs) = wire.n

\* C7: the acknowledgement of an event is written on a connection after the
\* requests of the application and of the keep-alive loop
C7_Witness ==
    /\ wire.command = "RESPONSE_EVENT_OCCURRED"
    /\ wire.n > 8
    /\ task["poll"].got.command = "POLL_ALIVE_RESPONSE"

\* C8: after disconnect() returns true the socket is closed, the connected
\* flag is false and neither the keep-alive loop nor the receive loop runs
C8_DisconnectedAfterTrue ==
    [][(Returns("disconnect") /\ task'["app"].result = "true")
          => /\ ~writer'
             /\ ~connected'
             /\ poll_alive_task' # "running"
             /\ receive_task' # "running"]_vars

\* C9: arm_section and disarm_section return true or false, they never raise
C9_ArmDisarmNeverRaise ==
    [][(Returns("arm") \/ Returns("disarm"))
          => task'["app"].result \in {"true", "false"}]_vars

\* C10: arm_section returns true exactly when a RESPONSE_ARM_SECTION was
\* received whose result code is no-change or armed, disarm_section exactly
\* when a RESPONSE_DISARM_SECTION was received whose result code is no-change
\* or disarmed; every other result code gives false
C10_ArmDisarmResult ==
    /\ (task["app"].pc = "returned" /\ task["app"].op = "arm")
          => /\ task["app"].result = "true"
                   <=> /\ task["app"].got.command = "RESPONSE_ARM_SECTION"
                       /\ task["app"].got.data \in {"NO_CHANGE", "SECTION_ARMED"}
             /\ (/\ task["app"].got.command = "RESPONSE_ARM_SECTION"
                 /\ task["app"].got.data \in ArmStates \ {"NO_CHANGE", "SECTION_ARMED"})
                   => task["app"].result = "false"
    /\ (task["app"].pc = "returned" /\ task["app"].op = "disarm")
          => /\ task["app"].result = "true"
                   <=> /\ task["app"].got.command = "RESPONSE_DISARM_SECTION"
                       /\ task["app"].got.data \in {"NO_CHANGE", "SECTION_DISARMED"}
             /\ (/\ task["app"].got.command = "RESPONSE_DISARM_SECTION"
                 /\ task["app"].got.data
                       \in DisarmStates \ {"NO_CHANGE", "SECTION_DISARMED"})
                   => task["app"].result = "false"

\* C10: arm_section has returned true for the no-change result code
C10_Witness ==
    /\ task["app"].pc = "returned"
    /\ task["app"].op = "arm"
    /\ task["app"].result = "true"
    /\ task["app"].got.data = "NO_CHANGE"

\* the keep-alive task ends the wait of its own POLL_ALIVE_REQUEST in this
\* step, the application task standing still
PollReturns ==
    /\ task["poll"].pc = "waiting"
    /\ task["poll"].op = "poll"
    /\ task["poll"].hs = "none"
    /\ task'["poll"].pc # "waiting"
    /\ task'["app"] = task["app"]

C12_GracefulDisconnect ==
    [][(PollReturns /\ writer /\ task'["poll"].got.command # "POLL_ALIVE_RESPONSE")
       => /\ wire'.command = "NORMAL_DISCONNECT"
          /\ ~writer'
          /\ ~connected']_vars

\* C13: a request that is encoded and then decoded, without a key or with
\* the key it was encoded with, gives its session id, both sequence numbers
\* and its command again, and no data when it was encoded without data
C13_RoundTrip ==
    (called.fn = "UNiiResponseMessage" /\ called.damage = "none")
        => /\ returned.value.error = "none"
           /\ returned.value.session_id = called.sent.session_id
           /\ returned.value.tx_sequence = called.sent.tx_sequence
           /\ returned.value.rx_sequence = called.sent.rx_sequence
           /\ returned.value.command = called.sent.command
           /\ ~called.sent.data.present => ~returned.value.data.present

\* an encrypted REQUEST_ARM_SECTION with thirteen bytes of data has come back
C13_Witness ==
    /\ called.fn = "UNiiResponseMessage"
    /\ called.damage = "none"
    /\ called.shared_key # NoKey
    /\ called.sent.command = 274
    /\ Len(called.sent.data.raw) = MaxData
    /\ returned.value.command = 274
    /\ returned.value.data = called.sent.data

\* C14: a message of the length its header states, whose last two bytes are
\* not the CRC-16 of the bytes before them, is refused with the checksum
\* error, which carries the checksum that was expected and the one that was
\* received; no field of the message is set
C14_ChecksumError ==
    (called.fn = "UNiiResponseMessage" /\ called.damage = "crc")
        => /\ IntFromBytes(Slice(called.message, 12, 14)) = Len(called.message)
           /\ returned.value.error = "UNiiChecksumError"
           /\ returned.value.expected
                  = calculate_crc16(Slice(called.message, 0, Len(called.message) - 2))
           /\ returned.value.received
                  = IntFromBytes(Slice(called.message, Len(called.message) - 2,
                                       Len(called.message)))
           /\ returned.value.received # returned.value.expected
           /\ returned.value.session_id = NoValue
           /\ returned.value.tx_sequence = NoValue
           /\ returned.value.rx_sequence = NoValue
           /\ returned.value.command = NoValue
           /\ ~returned.value.data.present

\* an encrypted request with data, its checksum changed, was refused
C14_Witness ==
    /\ called.fn = "UNiiResponseMessage"
    /\ called.damage = "crc"
    /\ called.shared_key # NoKey
    /\ called.sent.data.present
    /\ returned.value.error = "UNiiChecksumError"

\* C15: the number of bytes of an encoded request is the number in the
\* length field of its header, and a multiple of 16
C15_Length ==
    returned.of = "to_bytes"
        => /\ Len(returned.value) = IntFromBytes(Slice(returned.value, 12, 14))
           /\ Len(returned.value) % 16 = 0

\* twelve bytes of data fill the second block with the checksum: a whole
\* block of padding is added, with a key and without
C15_Witness ==
    /\ returned.of = "to_bytes"
    /\ called.shared_key # NoKey
    /\ called.m.data.present
    /\ Len(called.m.data.raw) = 12
    /\ Len(returned.value) = 48

\* CRC-16/XMODEM bit by bit: the register starts at 0; for every bit of the
\* text, most significant first, the register moves one place up and the
\* polynomial 0x1021 is xor-ed on when the bit moved out differs from the
\* bit of the text; nothing is reflected, nothing xor-ed on at the end
RECURSIVE XmodemBits(_, _, _)
XmodemBits(reg, byte, k) ==
    IF k = 0
    THEN reg
    ELSE IF (reg \div 32768) % 2 # (byte \div (2 ^ (k - 1))) % 2
    THEN XmodemBits(Xor((reg * 2) % 65536, 4129), byte, k - 1)
    ELSE XmodemBits((reg * 2) % 65536, byte, k - 1)

RECURSIVE Xmodem(_, _, _)
Xmodem(text, i, reg) ==
    IF reg < 0 \/ i > Len(text)
    THEN reg
    ELSE Xmodem(text, i + 1, XmodemBits(reg, text[i], 8))

\* C19: the checksum is the CRC-16/XMODEM of the bytes, 0xA955 for
\* 01 23 45 67 89 AB CD EF and 0x6282 for 01 23 45 67 89, a number of 16 bits
C19_Crc16 ==
    returned.of = "calculate_crc16"
        => /\ returned.value = Xmodem(called.message, 1, 0)
           /\ returned.value \in 0..65535
           /\ called.message = <<1, 35, 69, 103, 137, 171, 205, 239>>
                  => returned.value = 43349
           /\ called.message = <<1, 35, 69, 103, 137>> => returned.value = 25218

\* the checksum of the text of eight bytes was taken
C19_Witness ==
    /\ returned.of = "calculate_crc16"
    /\ called.message = <<1, 35, 69, 103, 137, 171, 205, 239>>
    /\ returned.value = 43349

\* the flags of an input that a status record has set
FlagsOf(o) ==
    [k \in DOMAIN o.items \cap {"bypassed", "alarm_memorized", "low_battery",
                                 "supervision"} |-> o.items[k]]

\* C16: an input arrangement merged into the inputs table leaves the status
\* and the flags of an input that is in the table as they are and gives it
\* the sensor type, reaction, name and sections of the entry; an input that is not in
\* the table enters it with the status DISABLED
C16_StatusRetained ==
    [][(called'.fn = "_handle_input_arrangement" /\ ~called'.data.none)
       => \A n \in DOMAIN called'.data.entries :
            /\ n \in DOMAIN inputs'
            /\ inputs'[n].items.sensor_type = called'.data.entries[n].items.sensor_type
            /\ inputs'[n].items.reaction = called'.data.entries[n].items.reaction
            /\ inputs'[n].items.name = called'.data.entries[n].items.name
            /\ Len(inputs'[n].items.sections) = Len(called'.data.entries[n].items.sections)
            /\ IF n \in DOMAIN inputs
               THEN /\ StatusOf(inputs'[n]) = StatusOf(inputs[n])
                    /\ FlagsOf(inputs'[n]) = FlagsOf(inputs[n])
               ELSE StatusOf(inputs'[n]) = "DISABLED"]_vars

\* the step of the handshake after an arrangement loop
AfterLoop(hs) == IF hs = "IA" THEN "IS" ELSE "DS"

\* the _send_receive of an arrangement request of task t returns a message
\* in this step, and no later call of the task has ended in it
BlockAnswered(t) ==
    /\ task[t].hs \in {"IA", "OA"}
    /\ task[t].pc = "waiting"
    /\ task'[t].got.seq = task[t].seq
    /\ task'[t].got.call = task[t].conn
    /\ task'[t].got.command # None

\* C17: the arrangement loops of the handshake ask for block 1 first (seen
\* in the steps that write one request and enter a loop) and
\* for the next block after every response that has data; the first
\* response without data (no payload, or the block number 0xFFFF) ends the
\* loop: nothing is raised, the response does not count as a missing one,
\* and the request of the next step of the handshake is written
C17_Pagination ==
    [][\A t \in Tasks :
          /\ (/\ task'[t].hs \in {"IA", "OA"}
              /\ task'[t].hs # task[t].hs
              /\ wire'.n = wire.n + 1)
                => task'[t].block = 1
          /\ BlockAnswered(t)
                => IF task'[t].got.data = None
                   THEN /\ task'[t].got.raised = "none"
                        /\ task'[t].exc = "none"
                        /\ task'[t].missed = task[t].missed
                        /\ task'[t].hs = AfterLoop(task[t].hs)
                        /\ task'[t].pc = "waiting"
                        /\ wire'.command = Request(AfterLoop(task[t].hs))
                        /\ wire'.n = wire.n + 1
                   ELSE /\ task'[t].hs = task[t].hs
                        /\ task'[t].block = task[t].block + 1
                        /\ task'[t].pc = "waiting"
                        /\ wire'.command = Request(task[t].hs)
                        /\ wire'.n = wire.n + 1]_vars

\* the input arrangement ended at its second block and the handshake waits
\* for the input status
C17_Witness ==
    \E t \in Tasks :
        /\ task[t].hs = "IS"
        /\ task[t].pc = "waiting"
        /\ task[t].block = MaxBlocks
        /\ task[t].got.expected = "RESPONSE_REQUEST_INPUT_ARRANGEMENT"
        /\ task[t].got.command = "RESPONSE_REQUEST_INPUT_ARRANGEMENT"
        /\ task[t].got.data = None
        /\ task[t].exc = "none"

\* the positions of all the bits of a byte string that are set, in
\* ascending order, the least significant bit the position 1
SetBits(data) ==
    SelectSeq([p \in 1..(8 * Len(data)) |-> p],
              LAMBDA p : (data[Len(data) - ((p - 1) \div 8)] \div (2 ^ ((p - 1) % 8))) % 2 = 1)

\* C18: bit_position_to_numeric returns, for a mask of two or of four
\* bytes, the positions of all its set bits in ascending order, the least
\* significant bit the position 1
C18_BitPositions ==
    returned.of = "bit_position_to_numeric" => returned.value = SetBits(called.data)

\* the digit i of the sixteen that eight bytes hold, two per byte
DigitOf(bytes, i) ==
    IF i % 2 = 1 THEN bytes[(i + 1) \div 2] \div 16 ELSE bytes[i \div 2] % 16

\* C20: bcd_encode of a string of one to sixteen digits returns eight bytes
\* that hold the digits in order, two per byte, and zero digits after them
C20_BcdEncode ==
    (returned.of = "bcd_encode" /\ IsDigit(called.data) /\ Len(called.data) <= 16)
        => /\ returned.error = "none"
           /\ Len(returned.value) = 8
           /\ \A i \in 1..16 :
                 DigitOf(returned.value, i)
                     = IF i <= Len(called.data) THEN HexValue(called.data[i]) ELSE 0

\* "12345678" was encoded as 12 34 56 78 00 00 00 00
C20_Witness ==
    /\ returned.of = "bcd_encode"
    /\ called.data = <<"1", "2", "3", "4", "5", "6", "7", "8">>
    /\ returned.value = <<18, 52, 86, 120, 0, 0, 0, 0>>

\* C22: while the socket is open the receive loop has not been ended by an
\* exception: it stops on a connection reset or a cancellation only
C22_ReceiveLoopRuns == ~(writer /\ receive_task = "dead")

\* C26: the connected flag is set only while the socket is open
C26_ConnectedImpliesOpen == connected => writer

\* the step in which the read of the receive loop is reset: the socket is
\* closed by the receive loop, no task runs and nothing is written
ResetRead ==
    /\ receive_task = "running"
    /\ writer
    /\ ~writer'
    /\ task' = task
    /\ tx_sequence' = tx_sequence

\* the keep-alive loop wakes from its sleep with the socket closed
WakesClosed ==
    /\ poll_alive_task = "running"
    /\ task["poll"].pc = "sleep"
    /\ ~writer
    /\ task'["poll"] # task["poll"]

\* C25, as the code has it: a reset read closes the socket and ends the
\* receive loop, opens no connection and leaves the keep-alive loop as it
\* is; the keep-alive loop that wakes with the socket closed reconnects
C25_ResetAmended ==
    [][/\ ResetRead
          => /\ receive_task' = "none"
             /\ poll_alive_task' = poll_alive_task
             /\ opens' = opens
             /\ wire' = wire
       /\ WakesClosed => task'["poll"].pc = "opening"]_vars

\* C25: a reset read closes the socket and stops the receive loop and the
\* keep-alive loop
C25_ResetStopsBothLoops ==
    [][ResetRead => (receive_task' # "running" /\ poll_alive_task' # "running")]_vars

\* after a reset read the keep-alive loop is reconnecting
C25_Witness ==
    /\ ~writer
    /\ receive_task = "none"
    /\ faults > 0
    /\ poll_alive_task = "running"
    /\ task["poll"].pc = "opening"

\* C27: a connection is established only while no socket is open and no
\* receive loop runs, and the two tasks never run a handshake at once
C27_OneConnection ==
    [][/\ opens' > opens => (~writer /\ receive_task # "running")
       /\ ~(task'["app"].hs # "none" /\ task'["poll"].hs # "none")]_vars

\* C28: while disconnect() waits for the keep-alive task it has cancelled,
\* that task does not go on to another sleep, wait or open
C28_CancelledLoopStops ==
    task["app"].pc = "cancelling" => task["poll"].pc \notin {"sleep", "waiting", "opening"}

\* the message of the waiting call of task t has been decoded and is in the
\* queue, the deadline of the call not passed
Matched(t) ==
    /\ task[t].pc = "waiting"
    /\ ~task[t].expired
    /\ task[t].seq \in DOMAIN received_message_queue
    /\ received_message_queue[task[t].seq].command = task[t].expected
    /\ received_message_queue[task[t].seq].conn = task[t].conn

\* C24: a call whose message was decoded before its deadline returns that
\* message: the deadline does not pass on the call while the message is in
\* the queue (a call past its deadline returns "no response")
C24_MessageBeforeDeadline ==
    [][\A t \in Tasks :
          Matched(t) => ~(/\ task'[t].pc = "waiting"
                          /\ task'[t].seq = task[t].seq
                          /\ task'[t].expired)]_vars

\* the receive loop took a frame in this step, and the decoder raised
FrameFailed ==
    /\ events' = events + 1
    /\ returned'.of = "_receive_coroutine"
    /\ returned'.value.error # "none"

\* C29: a frame whose decode fails (checksum, length, a record that cannot be
\* read) changes nothing: the session id, the rx_sequence, the sequence number
\* sent, the inputs and the two correlation tables stay as they were, no
\* subscriber is called, the request that waits goes on waiting and the
\* receive loop runs on with the socket open
C29_FailedFrameChangesNothing ==
    [][FrameFailed =>
          /\ session_id' = session_id
          /\ rx_sequence' = rx_sequence
          /\ tx_sequence' = tx_sequence
          /\ inputs' = inputs
          /\ waiting_for_message' = waiting_for_message
          /\ received_message_queue' = received_message_queue
          /\ forwarded' = forwarded
          /\ decoded' = decoded
          /\ task' = task
          /\ receive_task' = "running"
          /\ writer']_vars

\* a frame with a wrong checksum arrived while a request waited, after a
\* message had been decoded
C29_Witness ==
    /\ returned.of = "_receive_coroutine"
    /\ returned.value.error = "UNiiChecksumError"
    /\ task["app"].pc = "waiting"
    /\ task["app"].seq \notin DOMAIN received_message_queue
    /\ decoded.present
    /\ receive_task = "running"

\* a message was sent in this step
FrameSent == ops' = ops + 1 /\ returned'.of = "send"

\* the receive loop decoded a message in this step
FrameDecoded ==
    /\ events' = events + 1
    /\ returned'.of = "_receive_coroutine"
    /\ returned'.value.error = "none"

\* C30, as stated: once a message was decoded, every message sent carries the
\* session id of the message decoded last, and its tx_sequence as rx_sequence
C30_CarriesLastDecoded ==
    [][(FrameSent /\ decoded.present) =>
          /\ IntFromBytes(Slice(returned'.value, 0, 2)) = decoded.session_id
          /\ IntFromBytes(Slice(returned'.value, 6, 10)) = decoded.tx_sequence]_vars

\* C30, amended: a message sent carries, as rx_sequence, the tx_sequence of
\* the message decoded last, and, as session id, the session id of that
\* message when it was decoded on the connection that is open now and 0xFFFF
\* when none was decoded since connect(); a decoded message is dispatched and
\* updates both values whether or not its rx_sequence is the sequence number
\* sent last
C30_CarriesLastDecodedSinceConnect ==
    [][/\ FrameSent =>
            /\ IntFromBytes(Slice(returned'.value, 0, 2))
                 = (IF decoded.present /\ decoded.conn = opens
                    THEN decoded.session_id ELSE 65535)
            /\ IntFromBytes(Slice(returned'.value, 6, 10))
                 = (IF decoded.present THEN decoded.tx_sequence ELSE 0)
       /\ FrameDecoded =>
            /\ session_id' = returned'.value.session_id
            /\ rx_sequence' = returned'.value.tx_sequence
            /\ forwarded' = Append(forwarded, returned'.value.command)
            /\ decoded'.session_id = returned'.value.session_id
            /\ decoded'.tx_sequence = returned'.value.tx_sequence]_vars

\* a message was sent after a message was decoded whose rx_sequence was not
\* the sequence number sent last, on a connection opened after another one
C30_Witness ==
    /\ returned.of = "send"
    /\ decoded.present
    /\ decoded.conn = opens
    /\ opens = 2
    /\ decoded.session_id = 61705
    /\ decoded.tx_sequence = 146680915
    /\ Len(forwarded) > 0

\* the RELOAD_CONFIGURATION notifications among the commands forwarded
Reloads(log) == Len(SelectSeq(log, LAMBDA c : c = "RELOAD_CONFIGURATION"))

\* C21: a RELOAD_CONFIGURATION is forwarded exactly when an equipment
\* information message arrives while a snapshot is stored that differs from
\* it; the first snapshot and an identical repeat forward none, and the
\* snapshot stored is the one received last
C21_ReloadOnChange ==
    [][events' = events + 1 =>
          /\ Reloads(forwarded') - Reloads(forwarded)
               = (IF ~equipment_information.none /\ equipment_information # called'.data
                  THEN 1 ELSE 0)
          /\ equipment_information' = called'.data]_vars

\* three messages arrived, the last one a snapshot, and one of them differed
\* from the snapshot stored when it arrived
C21_Witness ==
    /\ events = 3
    /\ Reloads(forwarded) = 1
    /\ ~equipment_information.none
    /\ equipment_information.device_name = "Home"
    /\ equipment_information.software_version = <<2, 16, 0>>

\* C23: writes never deadlock: a task that wants the write path while another
\* task holds the writer lock does not block the thread the holder needs to
\* go on and release it
C23_WritesNeverDeadlock ==
    \A t \in Tasks :
        ~(task[t].pc = "blocked" /\ writer_lock # "free" /\ writer_lock # t)

\* the task t, which found the socket closed and ran _connect from _send,
\* writes the request of its own operation in this step
WritesAfterReconnect(t) ==
    /\ task[t].op \in {"arm", "disarm", "poll"}
    /\ task[t].hs # "none"
    /\ task[t].pc = "waiting"
    /\ task'[t].hs = "none"
    /\ wire'.n = wire.n + 1
    /\ wire'.command = Request(task[t].op)

\* C32: a send with reconnect on a closed socket runs the full handshake and
\* only then writes the command of the operation: the command is written
\* after the last request of the handshake, REQUEST_DEVICE_STATUS, on the
\* connection the handshake opened and with a greater sequence number
C32_CommandAfterFullHandshake ==
    [][\A t \in Tasks :
          WritesAfterReconnect(t) =>
              /\ task[t].hs = "DS"
              /\ wire.command = Request("DS")
              /\ wire'.tx > wire.tx
              /\ opens' = opens]_vars

\* the callback has run for a message of this command that has a payload
Ran(command) ==
    /\ called'.fn = "_message_received_callback"
    /\ called'.command = command
    /\ ~called'.data.none
    /\ connected' = connected

\* C38: merging a section arrangement adds a section only for an entry that
\* is active, adds nothing for an inactive entry of an unknown number, and
\* for a known number overwrites name and active flag and keeps armed_state;
\* no other message adds a section
C38_SectionArrangementMerge ==
    [][\A n \in 1..MaxSections :
         /\ (n \in DOMAIN sections' /\ n \notin DOMAIN sections) =>
               /\ Ran("RESPONSE_REQUEST_SECTION_ARRANGEMENT")
               /\ n \in DOMAIN called'.data.entries
               /\ called'.data.entries[n].active
         /\ (Ran("RESPONSE_REQUEST_SECTION_ARRANGEMENT")
                /\ n \in DOMAIN called'.data.entries) =>
               IF n \in DOMAIN sections
               THEN /\ n \in DOMAIN sections'
                    /\ sections'[n].name = called'.data.entries[n].name
                    /\ sections'[n].active = called'.data.entries[n].active
                    /\ ("armed_state" \in DOMAIN sections'[n])
                          = ("armed_state" \in DOMAIN sections[n])
                    /\ "armed_state" \in DOMAIN sections[n] =>
                          sections'[n].armed_state = sections[n].armed_state
               ELSE (n \in DOMAIN sections') = called'.data.entries[n].active]_vars

\* a section with a status was renamed and made inactive by an arrangement
\* whose inactive entry for an unknown section added nothing
C38_Witness ==
    /\ called.fn = "_message_received_callback"
    /\ called.command = "RESPONSE_REQUEST_SECTION_ARRANGEMENT"
    /\ ~called.data.none
    /\ \E n \in DOMAIN sections, k \in DOMAIN called.data.entries :
         /\ n \in DOMAIN called.data.entries
         /\ "armed_state" \in DOMAIN sections[n]
         /\ sections[n].armed_state = ARMED
         /\ ~sections[n].active
         /\ k \notin DOMAIN sections

\* C39: a section status sets armed_state of every section of the table it
\* names, derives active from it and leaves the name; an entry for an unknown
\* section creates nothing and the other entries are still applied
C39_SectionStatusEffect ==
    [][Ran("RESPONSE_REQUEST_SECTION_STATUS") =>
         /\ DOMAIN sections' = DOMAIN sections
         /\ \A n \in DOMAIN sections :
              IF n \in DOMAIN called'.data.entries
              THEN /\ sections'[n].armed_state = called'.data.entries[n].armed_state
                   /\ sections'[n].active
                         = (called'.data.entries[n].armed_state # NOT_PROGRAMMED)
                   /\ sections'[n].name = sections[n].name
              ELSE sections'[n] = sections[n]]_vars

\* a status with an entry for an unknown section and one for a known section,
\* which became inactive by it
C39_Witness ==
    /\ called.fn = "_message_received_callback"
    /\ called.command = "RESPONSE_REQUEST_SECTION_STATUS"
    /\ ~called.data.none
    /\ \E n \in DOMAIN called.data.entries, k \in DOMAIN called.data.entries :
         /\ k \notin DOMAIN sections
         /\ n \in DOMAIN sections
         /\ sections[n].armed_state = NOT_PROGRAMMED
         /\ ~sections[n].active

\* C36: on firmware 2.17.0 or later the outputs table holds the record of
\* every output an output-arrangement block has listed
C36_OutputsHoldLatestBlock ==
    [][(Ran("RESPONSE_REQUEST_OUTPUT_ARRANGEMENT") /\ equipment_information = "fw_2_17") =>
         \A n \in DOMAIN called'.data.entries :
             /\ n \in DOMAIN outputs'
             /\ outputs'[n] = called'.data.entries[n]]_vars

\* the calls of a subscriber with the command, in the log of a run
CallsOf(log, to, command) ==
    {k \in DOMAIN log : log[k].ev = "callback" /\ log[k].to = to /\ log[k].command = command}

\* C35: every decoded message is forwarded to each subscriber exactly once
C35_ForwardedExactlyOnce ==
    [][(called'.fn = "_message_received_callback" /\ connected' = connected
           /\ <<called, trace, events, faults>>' # <<called, trace, events, faults>>) =>
         \A i \in DOMAIN Subscribers :
             Cardinality(CallsOf(trace', Subscribers[i], called'.command)) = 1]_vars

\* C34: for an EVENT_OCCURRED the subscribers are called before the
\* acknowledgement is written, the acknowledgement is written iff the
\* connected flag is set and the write succeeds, and a write that fails
\* leaves the receive loop running
C34_AckIsBestEffort ==
    [][(called'.fn = "_message_received_callback" /\ called'.command = "EVENT_OCCURRED"
           /\ events' = events + 1) =>
         /\ \A j \in DOMAIN trace' :
              trace'[j].ev = "send" =>
                 \A i \in DOMAIN Subscribers :
                    \E k \in CallsOf(trace', Subscribers[i], "EVENT_OCCURRED") : k < j
         /\ (\E j \in DOMAIN trace' : trace'[j].ev = "send")
               = (connected /\ faults' = faults)
         /\ \A i \in DOMAIN Subscribers :
               CallsOf(trace', Subscribers[i], "EVENT_OCCURRED") # {}
         /\ receive_task' = "running"]_vars

\* C40: an input status sets the status and the four flags of an input of the
\* table and leaves its name, type and sections; a status for an unknown
\* input leaves the table as it is
C40_InputStatusEffect ==
    [][called'.fn = "_handle_input_status_update" =>
         LET r == called'.data
         IN IF r.number \in DOMAIN inputs
            THEN /\ DOMAIN inputs' = DOMAIN inputs
                 /\ StatusOf(inputs'[r.number]) = r.status
                 /\ \A k \in {"status", "bypassed", "alarm_memorized", "low_battery",
                              "supervision"} :
                       inputs'[r.number].items[k] = r[k]
                 /\ \A k \in {"name", "input_type", "sensor_type", "reaction", "sections"} :
                       inputs'[r.number].items[k] = inputs[r.number].items[k]
                 /\ \A n \in DOMAIN inputs : n # r.number => inputs'[n] = inputs[n]
            ELSE inputs' = inputs]_vars

\* an input of the table took an alarm with its flags and kept its name,
\* while another input is not in the table
C40_Witness ==
    /\ called.fn = "_handle_input_status_update"
    /\ called.data.number \in DOMAIN inputs
    /\ inputs[called.data.number].items.status = "ALARM"
    /\ inputs[called.data.number].items.low_battery
    /\ inputs[called.data.number].items.name = "Hall"
    /\ \E n \in InputNumbers : n \notin DOMAIN inputs

\* C33: the first message written on a connection, before anything was
\* decoded on it, carries the session id 0xFFFF and the rx_sequence 0
C33_FirstMessageFresh ==
    [][(FrameSent /\ tx_sequence \in TxSeeds /\ ~(decoded.present /\ decoded.conn = opens)) =>
          /\ IntFromBytes(Slice(returned'.value, 0, 2)) = 65535
          /\ IntFromBytes(Slice(returned'.value, 6, 10)) = 0]_vars

\* C37: once the peer has closed the stream, the socket is eventually marked
\* closed and the receive loop stops running
C37_EndOfStreamCloses ==
    (at_eof /\ writer /\ receive_task = "running")
        ~> (~writer /\ receive_task # "running")

\* the requests that may follow one another in a handshake
HsFollows ==
    {<<"CR", "EI">>, <<"EI", "SA">>, <<"SA", "SS">>, <<"SS", "IA">>, <<"IA", "IA">>,
     <<"IA", "IS">>, <<"IS", "OA">>, <<"IS", "DS">>, <<"OA", "OA">>, <<"OA", "DS">>}

\* h2 is the k-th request after the request h of a handshake
RECURSIVE HsPath(_, _, _)
HsPath(h, h2, k) ==
    IF k = 0 THEN h = h2
    ELSE \E m \in {"EI", "SA", "SS", "IA", "IS", "OA", "DS"} :
            <<h, m>> \in HsFollows /\ HsPath(m, h2, k - 1)

\* the requests written in this step, by the task t that runs in it (the
\* count of the writes begins anew on a new connection)
Written(t) == wire'.n - (IF task[t].pc = "opening" THEN 0 ELSE wire.n)

\* the task t writes requests of a handshake in this step and waits for the
\* response to the last of them
HsWrites(t) ==
    /\ task'[t].hs # "none"
    /\ task'[t].pc = "waiting"
    /\ task'[t].seq = wire'.tx
    /\ task'[t] # task[t]
    /\ Written(t) >= 1

\* C31: a handshake begins with CONNECTION_REQUEST and every later request
\* follows the one before it in the order equipment information, section
\* arrangement, section status, input-arrangement blocks, input status,
\* output-arrangement blocks (on firmware 2.17.0 or later only), device
\* status; a handshake that waits writes its next request only when the
\* response is in the table or the deadline has passed
C31_HandshakeOrder ==
    [][\A t \in Tasks :
          HsWrites(t) =>
             /\ wire'.command = Request(task'[t].hs)
             /\ IF task[t].hs = "none"
                THEN HsPath("CR", task'[t].hs, Written(t) - 1)
                ELSE /\ HsPath(task[t].hs, task'[t].hs, Written(t))
                     /\ task[t].pc = "waiting"
                     /\ task[t].seq \in DOMAIN received_message_queue \/ task[t].expired
             /\ task'[t].hs = "OA" => equipment_information' = "fw_2_17"
             /\ (task[t].hs = "IS" /\ task'[t].hs = "DS" /\ Written(t) = 1) =>
                   equipment_information' # "fw_2_17"]_vars

\* a handshake on firmware 2.17.0 has asked for the outputs and waits for the
\* device status
C31_Witness ==
    \E t \in Tasks :
        /\ task[t].hs = "DS"
        /\ task[t].pc = "waiting"
        /\ equipment_information = "fw_2_17"
        /\ wire.command = Request("DS")
        /\ wire.n >= 8

====
